---- MODULE Spec2Model ----
(***************************************************************************)
(* Distributed table metadata cache (metadata_cache.c): the table cache,  *)
(* its invalidation callback, the activation gate and the shard interval   *)
(* classification, as a state machine.                                     *)
(***************************************************************************)
EXTENDS Integers, Sequences, FiniteSets, TLC

(***************************************************************************)
(* Bounds of the model.                                                    *)
(***************************************************************************)
\* width, in bits, of the hash-token integer type of the model (int32 in the
\* code); the 64-bit intermediate arithmetic is 2 * TokenBits wide
TokenBits == 4
\* largest number of shard rows a table of the catalog holds
MaxCatalogShards == 2
\* number of user tables of the multi-table specification
NumTables == 3
\* largest number of rows pg_dist_node holds
MaxNodeRows == 2
MaxScanLength == 3

(***************************************************************************)
(* Program constants.                                                      *)
(***************************************************************************)
InvalidOid == 0
INT4OID == 23
\* a type identifier the type system cannot resolve (dropped type)
UnknownTypeOid == INT4OID + 1
DISTRIBUTE_BY_APPEND == "a"
DISTRIBUTE_BY_HASH == "h"
DISTRIBUTE_BY_RANGE == "r"
\* a partmethod byte outside {a, h, r}
UnsupportedMethod == "x"
\* the zero char of a zero-initialised partitionMethod
ZeroChar == "NUL"
INT32_MIN == -(2 ^ (TokenBits - 1))
INT32_MAX == (2 ^ (TokenBits - 1)) - 1
HASH_TOKEN_COUNT == 2 ^ TokenBits
\* NULL pointers of the three pointer types an entry holds
NullString == "NULL"
NullArray == <<>>
NullFmgrInfo == InvalidOid

\* oids of the catalog relations and indexes while they exist
RelationOid ==
    [pg_dist_partition |-> 101, pg_dist_shard |-> 102, pg_dist_node |-> 103,
     pg_dist_partition_logical_relid_index |-> 104,
     pg_dist_shard_logical_relid_index |-> 105,
     pg_dist_shard_shardid_index |-> 106]
PgDistPartitionOid == RelationOid.pg_dist_partition
PgDistNodeOid == RelationOid.pg_dist_node

(***************************************************************************)
(* Text values of the catalog and the int4 input function.                 *)
(***************************************************************************)
DigitChars == <<"0", "1", "2", "3", "4", "5", "6", "7", "8", "9">>

RECURSIVE NatToText(_)
NatToText(n) ==
    IF n < 10 THEN <<DigitChars[n + 1]>>
    ELSE Append(NatToText(n \div 10), DigitChars[(n % 10) + 1])

\* the decimal text of an integer, as the catalog stores a shard bound
IntToText(n) == IF n < 0 THEN <<"-">> \o NatToText(-n) ELSE NatToText(n)

IsDigit(c) == \E d \in 1..10 : DigitChars[d] = c
DigitValue(c) == (CHOOSE d \in 1..10 : DigitChars[d] = c) - 1

RECURSIVE DigitsValue(_)
DigitsValue(s) ==
    IF s = <<>> THEN 0
    ELSE 10 * DigitsValue(SubSeq(s, 1, Len(s) - 1)) + DigitValue(s[Len(s)])

\* int4in: an optional sign and at least one digit, inside the integer range;
\* anything else is an input error
Int4In(text) ==
    LET neg == Len(text) > 0 /\ text[1] = "-"
        body == IF neg THEN Tail(text) ELSE text
        wellFormed == Len(body) > 0 /\ \A i \in 1..Len(body) : IsDigit(body[i])
        v == IF neg THEN -DigitsValue(body) ELSE DigitsValue(body)
    IN  IF wellFormed /\ v >= INT32_MIN /\ v <= INT32_MAX
        THEN [ok |-> TRUE, value |-> v]
        ELSE [ok |-> FALSE, value |-> 0]

\* a nullable text attribute: heap_getattr yields the datum and isNull
TextDatum(n) == [isNull |-> FALSE, text |-> IntToText(n)]
NullDatum == [isNull |-> TRUE, text |-> <<>>]
GarbageDatum == [isNull |-> FALSE, text |-> <<"1", "x">>]

(***************************************************************************)
(* Partition keys: the serialized Var of the distribution column.          *)
(***************************************************************************)
KeyInt4 == "{VAR :vartype 23 :vartypmod -1}"
KeyUnknownType == "{VAR :vartype 24 :vartypmod -1}"

stringToNode(partitionKeyString) ==
    IF partitionKeyString = KeyInt4
    THEN [vartype |-> INT4OID, vartypmod |-> -1]
    ELSE [vartype |-> UnknownTypeOid, vartypmod |-> -1]

\* whether the type system resolves input, ordering and hash functions of a type
TypeResolves(typeId) == typeId = INT4OID

(***************************************************************************)
(* Shard Interval Builder.                                                 *)
(***************************************************************************)
\* the NULL heap tuple LookupDistPartitionTuple returns when no row matches
NullTuple == [null |-> TRUE]

\* GetPartitionTypeInputInfo: interval type and modifier of a key and method
GetPartitionTypeInputInfo(partitionKeyString, partitionMethod) ==
    IF partitionMethod \in {DISTRIBUTE_BY_APPEND, DISTRIBUTE_BY_RANGE}
    THEN [err |-> "none",
          intervalTypeId |-> stringToNode(partitionKeyString).vartype,
          intervalTypeMod |-> stringToNode(partitionKeyString).vartypmod]
    ELSE IF partitionMethod = DISTRIBUTE_BY_HASH
    THEN [err |-> "none", intervalTypeId |-> INT4OID, intervalTypeMod |-> -1]
    ELSE [err |-> "UnsupportedPartitionMethodError",
          intervalTypeId |-> InvalidOid, intervalTypeMod |-> -1]

\* mutant: each bound text that is present is parsed, whatever the other
TupleToShardInterval_EachBoundAlone(heapTuple, intervalTypeId, intervalTypeMod) ==
    LET minPresent == ~heapTuple.shardminvalue.isNull
        maxPresent == ~heapTuple.shardmaxvalue.isNull
        minParsed == Int4In(heapTuple.shardminvalue.text)
        maxParsed == Int4In(heapTuple.shardmaxvalue.text)
    IN  [err |-> "none",
         shardInterval |->
            [relationId |-> heapTuple.logicalrelid,
             storageType |-> heapTuple.shardstorage,
             valueTypeId |-> intervalTypeId,
             valueTypeLen |-> TokenBits,
             valueByVal |-> TRUE,
             minValueExists |-> minPresent,
             maxValueExists |-> maxPresent,
             minValue |-> IF minPresent THEN minParsed.value ELSE 0,
             maxValue |-> IF maxPresent THEN maxParsed.value ELSE 0,
             shardId |-> heapTuple.shardid]]

\* TupleToShardInterval: one pg_dist_shard row to a ShardInterval; the bounds are
\* parsed only when both texts are present
TupleToShardInterval(heapTuple, intervalTypeId, intervalTypeMod) ==
    LET bothPresent == ~heapTuple.shardminvalue.isNull /\ ~heapTuple.shardmaxvalue.isNull
        minParsed == Int4In(heapTuple.shardminvalue.text)
        maxParsed == Int4In(heapTuple.shardmaxvalue.text)
        err == IF ~bothPresent THEN "none"
               ELSE IF ~TypeResolves(intervalTypeId) THEN "UnknownTypeError"
               ELSE IF ~minParsed.ok \/ ~maxParsed.ok THEN "ValueParseError"
               ELSE "none"
    IN  [err |-> err,
         shardInterval |->
            [relationId |-> heapTuple.logicalrelid,
             storageType |-> heapTuple.shardstorage,
             valueTypeId |-> intervalTypeId,
             valueTypeLen |-> IF bothPresent THEN TokenBits ELSE 0,
             valueByVal |-> bothPresent,
             minValueExists |-> bothPresent,
             maxValueExists |-> bothPresent,
             minValue |-> IF bothPresent THEN minParsed.value ELSE 0,
             maxValue |-> IF bothPresent THEN maxParsed.value ELSE 0,
             shardId |-> heapTuple.shardid]]

\* the intervals of a tuple list, in list order, and the first error met
RECURSIVE TuplesToShardIntervals(_, _, _)
TuplesToShardIntervals(distShardTupleList, intervalTypeId, intervalTypeMod) ==
    IF distShardTupleList = <<>> THEN [err |-> "none", shardIntervalArray |-> <<>>]
    ELSE LET first == TupleToShardInterval(Head(distShardTupleList), intervalTypeId,
                                           intervalTypeMod)
             rest == TuplesToShardIntervals(Tail(distShardTupleList), intervalTypeId,
                                            intervalTypeMod)
         IN  IF first.err # "none"
             THEN [err |-> first.err, shardIntervalArray |-> <<>>]
             ELSE [err |-> rest.err,
                   shardIntervalArray |-> <<first.shardInterval>> \o rest.shardIntervalArray]

(***************************************************************************)
(* Shard Set Classifier.                                                   *)
(***************************************************************************)
\* ShardIntervalCompareFunction: the ordering capability, named by its type
ShardIntervalCompareFunction(shardIntervalArray, partitionMethod) ==
    LET comparisonTypeId == IF partitionMethod = DISTRIBUTE_BY_HASH THEN INT4OID
                            ELSE shardIntervalArray[1].valueTypeId
    IN  IF TypeResolves(comparisonTypeId)
        THEN [err |-> "none", function |-> comparisonTypeId]
        ELSE [err |-> "UnknownTypeError", function |-> NullFmgrInfo]

\* btint4cmp
CompareValues(a, b) == IF a < b THEN -1 ELSE IF a > b THEN 1 ELSE 0

\* CompareShardIntervals: an interval without bounds sorts after the others
CompareShardIntervals(leftShardInterval, rightShardInterval) ==
    IF ~leftShardInterval.minValueExists \/ ~leftShardInterval.maxValueExists THEN 1
    ELSE IF ~rightShardInterval.minValueExists \/ ~rightShardInterval.maxValueExists THEN -1
    ELSE CompareValues(leftShardInterval.minValue, rightShardInterval.minValue)

\* the insertion step of qsort_arg on short arrays: the element moves left
\* while the element before it compares greater
RECURSIVE InsertShardInterval(_, _)
InsertShardInterval(sorted, shardInterval) ==
    IF sorted = <<>> THEN <<shardInterval>>
    ELSE IF CompareShardIntervals(sorted[Len(sorted)], shardInterval) > 0
    THEN Append(InsertShardInterval(SubSeq(sorted, 1, Len(sorted) - 1), shardInterval),
                sorted[Len(sorted)])
    ELSE Append(sorted, shardInterval)

RECURSIVE SortRun(_, _)
SortRun(sorted, rest) ==
    IF rest = <<>> THEN sorted
    ELSE SortRun(InsertShardInterval(sorted, Head(rest)), Tail(rest))

\* mutant: the array is left in scan order
SortShardIntervalArray_ScanOrder(shardIntervalArray, shardCount) == shardIntervalArray

\* SortShardIntervalArray: the array ordered by CompareShardIntervals
SortShardIntervalArray(shardIntervalArray, shardCount) ==
    IF shardCount = 0 THEN shardIntervalArray ELSE SortRun(<<>>, shardIntervalArray)

\* truncation of the 64-bit intermediate to the 32-bit token type
Wrap64(x) == x % (2 ^ (2 * TokenBits))
ToInt32(x) ==
    LET m == x % (2 ^ TokenBits)
    IN  IF m >= 2 ^ (TokenBits - 1) THEN m - 2 ^ TokenBits ELSE m

hashTokenIncrement(shardIntervalArrayLength) == HASH_TOKEN_COUNT \div shardIntervalArrayLength

shardMinHashToken(shardIndex, shardIntervalArrayLength) ==
    ToInt32(Wrap64(INT32_MIN + shardIndex * hashTokenIncrement(shardIntervalArrayLength)))

\* mutant: the upper bound of the last range is computed like the others
shardMaxHashToken_NoLastRange(shardIndex, shardIntervalArrayLength) ==
    ToInt32(Wrap64(shardMinHashToken(shardIndex, shardIntervalArrayLength)
                   + (hashTokenIncrement(shardIntervalArrayLength) - 1)))

\* mutant: the upper bound of a range is the lower bound plus the increment
shardMaxHashToken_NoDecrement(shardIndex, shardIntervalArrayLength) ==
    IF shardIndex = shardIntervalArrayLength - 1 THEN INT32_MAX
    ELSE ToInt32(Wrap64(shardMinHashToken(shardIndex, shardIntervalArrayLength)
                        + hashTokenIncrement(shardIntervalArrayLength)))

shardMaxHashToken(shardIndex, shardIntervalArrayLength) ==
    IF shardIndex = shardIntervalArrayLength - 1 THEN INT32_MAX
    ELSE ToInt32(Wrap64(shardMinHashToken(shardIndex, shardIntervalArrayLength)
                        + (hashTokenIncrement(shardIntervalArrayLength) - 1)))

\* mutant: without the short cut for an array of no shards, whose loop runs no
\* iteration
HasUniformHashDistribution_NoShortCut(shardIntervalArray, shardIntervalArrayLength) ==
    \A shardIndex \in 0..(shardIntervalArrayLength - 1) :
        /\ shardIntervalArray[shardIndex + 1].minValue
              = shardMinHashToken(shardIndex, shardIntervalArrayLength)
        /\ shardIntervalArray[shardIndex + 1].maxValue
              = shardMaxHashToken(shardIndex, shardIntervalArrayLength)

\* mutant: only the lower bound of a shard is compared with its range
HasUniformHashDistribution_MinOnly(shardIntervalArray, shardIntervalArrayLength) ==
    IF shardIntervalArrayLength = 0 THEN FALSE
    ELSE \A shardIndex \in 0..(shardIntervalArrayLength - 1) :
            shardIntervalArray[shardIndex + 1].minValue
                = shardMinHashToken(shardIndex, shardIntervalArrayLength)

\* HasUniformHashDistribution: the stored bounds are read whatever the exists flags
HasUniformHashDistribution(shardIntervalArray, shardIntervalArrayLength) ==
    IF shardIntervalArrayLength = 0 THEN FALSE
    ELSE \A shardIndex \in 0..(shardIntervalArrayLength - 1) :
            /\ shardIntervalArray[shardIndex + 1].minValue
                  = shardMinHashToken(shardIndex, shardIntervalArrayLength)
            /\ shardIntervalArray[shardIndex + 1].maxValue
                  = shardMaxHashToken(shardIndex, shardIntervalArrayLength)

\* mutant: the first element is looked at
HasUninitializedShardInterval_FirstElement(sortedShardIntervalArray, shardCount) ==
    IF shardCount = 0 THEN FALSE
    ELSE LET firstShardInterval == sortedShardIntervalArray[1]
         IN  ~firstShardInterval.minValueExists \/ ~firstShardInterval.maxValueExists

\* HasUninitializedShardInterval: looks at the last element only
HasUninitializedShardInterval(sortedShardIntervalArray, shardCount) ==
    IF shardCount = 0 THEN FALSE
    ELSE LET lastShardInterval == sortedShardIntervalArray[shardCount]
         IN  ~lastShardInterval.minValueExists \/ ~lastShardInterval.maxValueExists

(***************************************************************************)
(* Cache entries.                                                          *)
(***************************************************************************)
\* what hash_search yields for a key that has no slot
NoEntry == [absent |-> TRUE]

\* a slot after hash_search(HASH_ENTER) and the memset of everything but the key
ZeroedEntry(relationId) ==
    [relationId |-> relationId,
     isValid |-> FALSE,
     isDistributedTable |-> FALSE,
     isOwner |-> FALSE,
     isCluster |-> FALSE,
     partitionKeyString |-> NullString,
     partitionMethod |-> ZeroChar,
     shardIntervalArrayLength |-> 0,
     sortedShardIntervalArray |-> NullArray,
     shardIntervalCompareFunction |-> NullFmgrInfo,
     hashFunction |-> NullFmgrInfo,
     hasUninitializedShardInterval |-> FALSE,
     hasUniformHashDistribution |-> FALSE]

\* mutant: the entry is left as it is
ResetDistTableCacheEntry_FreesNothing(cacheEntry) == cacheEntry

\* ResetDistTableCacheEntry: frees the out-of-band memory of an entry, keeps the slot
ResetDistTableCacheEntry(cacheEntry) ==
    LET keyFreed == [cacheEntry EXCEPT !.partitionKeyString = NullString]
    IN  IF cacheEntry.shardIntervalArrayLength > 0
        THEN [keyFreed EXCEPT
                !.sortedShardIntervalArray = NullArray,
                !.shardIntervalArrayLength = 0,
                !.hasUninitializedShardInterval = FALSE,
                !.hasUniformHashDistribution = FALSE,
                !.shardIntervalCompareFunction = NullFmgrInfo,
                !.hashFunction = IF cacheEntry.partitionMethod = DISTRIBUTE_BY_HASH
                                 THEN NullFmgrInfo ELSE @]
        ELSE keyFreed

\* mutant: a hash function is allocated for every method
NeedsHashFunction_EveryMethod(partitionMethod) == TRUE

\* "we only need hash functions for hash distributed tables"
NeedsHashFunction(partitionMethod) == partitionMethod = DISTRIBUTE_BY_HASH

\* the part of LookupDistTableCacheEntry after the two catalog scans: the entry
\* built from the partition tuple and the shard tuples read, or the error raised
BuildCacheEntry(relationId, distPartitionTuple, distShardTupleList) ==
    LET found == distPartitionTuple # NullTuple
        partitionKeyString == IF found THEN distPartitionTuple.partkey ELSE NullString
        partitionMethod == IF found THEN distPartitionTuple.partmethod ELSE ZeroChar
        shardIntervalArrayLength == Len(distShardTupleList)
        typeInfo == GetPartitionTypeInputInfo(partitionKeyString, partitionMethod)
        built == TuplesToShardIntervals(distShardTupleList, typeInfo.intervalTypeId,
                                        typeInfo.intervalTypeMod)
        compare == ShardIntervalCompareFunction(built.shardIntervalArray, partitionMethod)
        sorted == SortShardIntervalArray(built.shardIntervalArray, shardIntervalArrayLength)
        isHash == NeedsHashFunction(partitionMethod)
        hashType == stringToNode(partitionKeyString).vartype
        err == IF shardIntervalArrayLength > 0 /\ typeInfo.err # "none" THEN typeInfo.err
               ELSE IF shardIntervalArrayLength > 0 /\ built.err # "none" THEN built.err
               ELSE IF shardIntervalArrayLength > 0 /\ compare.err # "none" THEN compare.err
               ELSE IF isHash /\ ~TypeResolves(hashType) THEN "UnknownTypeError"
               ELSE "none"
        zeroed == ZeroedEntry(relationId)
    IN  IF err # "none" THEN [err |-> err, cacheEntry |-> NoEntry]
        ELSE IF ~found
        THEN [err |-> "none",
              cacheEntry |-> [zeroed EXCEPT !.isValid = TRUE, !.isDistributedTable = FALSE]]
        ELSE [err |-> "none",
              cacheEntry |->
                [zeroed EXCEPT
                    !.isValid = TRUE,
                    !.isDistributedTable = TRUE,
                    !.isOwner = distPartitionTuple.isowner,
                    !.isCluster = distPartitionTuple.iscluster,
                    !.partitionKeyString = partitionKeyString,
                    !.partitionMethod = partitionMethod,
                    !.shardIntervalArrayLength = shardIntervalArrayLength,
                    !.sortedShardIntervalArray = sorted,
                    !.shardIntervalCompareFunction =
                        IF shardIntervalArrayLength > 0 THEN compare.function
                        ELSE NullFmgrInfo,
                    !.hashFunction = IF isHash THEN hashType ELSE NullFmgrInfo,
                    !.hasUninitializedShardInterval =
                        HasUninitializedShardInterval(sorted, shardIntervalArrayLength),
                    !.hasUniformHashDistribution =
                        IF isHash
                        THEN HasUniformHashDistribution(sorted, shardIntervalArrayLength)
                        ELSE FALSE]]

(***************************************************************************)
(* The catalog rows the model draws from.                                  *)
(***************************************************************************)
ShardTuple(logicalrelid, shardid, minDatum, maxDatum) ==
    [logicalrelid |-> logicalrelid, shardid |-> shardid, shardstorage |-> "t",
     shardminvalue |-> minDatum, shardmaxvalue |-> maxDatum]

\* the two halves of the token space and a shard without bounds
ShardTuples(logicalrelid) ==
    {ShardTuple(logicalrelid, 1, TextDatum(INT32_MIN), TextDatum(-1)),
     ShardTuple(logicalrelid, 2, TextDatum(0), TextDatum(INT32_MAX)),
     ShardTuple(logicalrelid, 3, NullDatum, NullDatum)}

\* the index scan returns the rows of a table in a fixed order: descending shardid
RECURSIVE ScanOrder(_)
ScanOrder(tuples) ==
    IF tuples = {} THEN <<>>
    ELSE LET top == CHOOSE r \in tuples : \A q \in tuples : q.shardid <= r.shardid
         IN  <<top>> \o ScanOrder(tuples \ {top})

ShardTupleLists(logicalrelid) ==
    {ScanOrder(tuples) : tuples \in {S \in SUBSET ShardTuples(logicalrelid) :
                                        Cardinality(S) <= MaxCatalogShards}}

PartitionTuple(partmethod, partkey, isowner, iscluster) ==
    [partmethod |-> partmethod, partkey |-> partkey, isowner |-> isowner,
     iscluster |-> iscluster]

PartitionTuples ==
    {NullTuple,
     PartitionTuple(DISTRIBUTE_BY_HASH, KeyInt4, TRUE, FALSE),
     PartitionTuple(DISTRIBUTE_BY_RANGE, KeyInt4, FALSE, TRUE),
     PartitionTuple(DISTRIBUTE_BY_HASH, KeyUnknownType, FALSE, FALSE),
     PartitionTuple(UnsupportedMethod, KeyInt4, FALSE, FALSE)}

\* the table the single-table specification looks up
Tables == {1}
\* every identifier a notification can carry and a slot can be keyed by
RelationIds == (1..NumTables) \cup {PgDistPartitionOid, PgDistNodeOid}

Operations == {"IsDistributedTable", "IsTableMaster", "DistributedTableCacheEntry"}

(***************************************************************************)
(* Worker nodes: the rows of pg_dist_node and the hash built from them.    *)
(***************************************************************************)
WORKER_LENGTH == 256

\* strlcpy(dst, src, size): at most size - 1 characters are copied
strlcpy(source, size) ==
    IF Len(source) < size THEN source ELSE SubSeq(source, 1, size - 1)

\* the datum conversions of TupleToWorkerNode; the node rows of the model keep
\* the low byte of groupid below 128, where the sign of char plays no part
DatumGetChar(datum) == datum % 256
DatumGetInt32(datum) == datum
DatumGetUInt32(datum) == datum

NodeTuple(nodeid, nodename, nodeport, noderole, nodeactive, groupid) ==
    [nodeid |-> nodeid, nodename |-> nodename, nodeport |-> nodeport,
     noderole |-> noderole, nodeactive |-> nodeactive, groupid |-> groupid]

\* the rows pg_dist_node can hold: two rows with the same nodeid, one of them
\* of a group above 255, and a row of another node
NodeTuples ==
    {NodeTuple(7, <<"w", "a">>, 5432, "p", TRUE, 1),
     NodeTuple(7, <<"w", "b">>, 5433, "s", FALSE, 300),
     NodeTuple(8, <<"w", "c">>, 5432, "p", TRUE, 2)}

NodeIds == {t.nodeid : t \in NodeTuples}

\* the heap scans of pg_dist_node: its rows in any physical order
NodeTupleLists ==
    {l \in UNION {[1..n -> NodeTuples] : n \in 0..MaxNodeRows} :
        \A i, j \in 1..Len(l) : i # j => l[i] # l[j]}

\* TupleToWorkerNode
TupleToWorkerNode(heapTuple) ==
    [nodeId |-> DatumGetInt32(heapTuple.nodeid),
     workerPort |-> DatumGetUInt32(heapTuple.nodeport),
     workerRole |-> heapTuple.noderole,
     groupId |-> DatumGetChar(heapTuple.groupid),
     workerActive |-> heapTuple.nodeactive,
     workerName |-> strlcpy(heapTuple.nodename, WORKER_LENGTH)]

\* ReadWorkerNodes: the list of the nodes of the rows, in scan order
ReadWorkerNodes(nodeTuples) ==
    [i \in 1..Len(nodeTuples) |-> TupleToWorkerNode(nodeTuples[i])]

\* a nodeId that has no entry in the worker node hash
NoNode == [absent |-> TRUE]

\* hash_create: a hash without entries
EmptyWorkerNodeHash == [null |-> FALSE, entries |-> [nodeId \in NodeIds |-> NoNode]]

\* WorkerNodeHash == NULL
NullHash == [null |-> TRUE, entries |-> [nodeId \in NodeIds |-> NoNode]]

\* no GetWorkerNodeHash call has run
NoNodeResult == [outcome |-> "none", scans |-> 0, warnings |-> 0, hash |-> NullHash]

\* the foreach loop of InitializeWorkerNodeCache: every node of the list is
\* entered under its nodeId, a node found there is overwritten and warned about
RECURSIVE FillWorkerNodeHash(_, _)
FillWorkerNodeHash(filled, workerNodeList) ==
    IF workerNodeList = <<>> THEN filled
    ELSE LET currentNode == Head(workerNodeList)
             handleFound == filled.hash.entries[currentNode.nodeId] # NoNode
         IN  FillWorkerNodeHash(
                 [hash |-> [filled.hash EXCEPT
                              !.entries[currentNode.nodeId] =
                                 [nodeId |-> currentNode.nodeId,
                                  workerName |-> strlcpy(currentNode.workerName,
                                                         WORKER_LENGTH),
                                  workerPort |-> currentNode.workerPort,
                                  workerActive |-> currentNode.workerActive,
                                  workerRole |-> currentNode.workerRole,
                                  groupId |-> currentNode.groupId]],
                  warnings |-> filled.warnings + (IF handleFound THEN 1 ELSE 0)],
                 Tail(workerNodeList))

(***************************************************************************)
(* State.                                                                  *)
(***************************************************************************)
VARIABLES
    DistTableCacheHash,   \* slot of each relation id, NoEntry when there is none
    hashInitialized,      \* DistTableCacheHash != NULL: the callback is registered
    extensionLoaded,      \* the cached positive activation determination
    cachedOids,           \* the resolved relation and index identifiers
    extensionPresent,     \* pg_extension holds citus
    creatingExtension,    \* the extension script of citus is running
    relationsExist,       \* the pg_dist_* relations exist
    pgDistPartition,      \* catalog: partition tuple of each relation id
    pgDistShard,          \* catalog: shard tuples of each relation id, in scan order
    pendingInval,         \* relation ids changed and not yet notified
    pc,                   \* position of the running lookup
    readPartitionTuple,   \* distPartitionTuple of the running lookup
    readShardTupleList,   \* distShardTupleList of the running lookup
    result,               \* the call that runs or ran last, and its outcome
    WorkerNodeHash,       \* the worker node hash, NullHash while there is none
    invalidationRegistered, \* InvalidateNodeRelationCacheCallback is registered
    pgDistNode,           \* catalog: the rows of pg_dist_node, in heap scan order
    nodePc,               \* position of the running InitializeWorkerNodeCache
    nodeResult,           \* the GetWorkerNodeHash call that runs or ran last
    shardLoad,            \* the shard tuple LoadShardInterval holds, what it returns
    relcacheCallbacks,    \* the registered relcache callbacks, in registration order
    uniformCheck          \* a running HasUniformHashDistribution: its arguments and locals

vars == <<DistTableCacheHash, hashInitialized, extensionLoaded, cachedOids,
          extensionPresent, creatingExtension, relationsExist, pgDistPartition,
          pgDistShard, pendingInval, pc, readPartitionTuple, readShardTupleList,
          result, WorkerNodeHash, invalidationRegistered, pgDistNode, nodePc,
          nodeResult, shardLoad, relcacheCallbacks, uniformCheck>>

environment == <<extensionPresent, creatingExtension, relationsExist>>
catalog == <<pgDistPartition, pgDistShard>>
locals == <<pc, readPartitionTuple, readShardTupleList>>
tableCache == <<DistTableCacheHash, hashInitialized, extensionLoaded>>
workerNodeCache == <<WorkerNodeHash, invalidationRegistered, pgDistNode, nodePc, nodeResult>>

\* no ShardInterval
NoShardInterval == [absent |-> TRUE]

\* no LoadShardInterval call has run
NoShardLoad == [shardId |-> 0, heapTuple |-> NullTuple, shardInterval |-> NoShardInterval]

NoOids ==
    [distShardRelationId |-> InvalidOid,
     distShardPlacementRelationId |-> InvalidOid,
     distNodeRelationId |-> InvalidOid,
     distPartitionRelationId |-> InvalidOid,
     distPartitionLogicalRelidIndexId |-> InvalidOid,
     distShardLogicalRelidIndexId |-> InvalidOid,
     distShardShardidIndexId |-> InvalidOid,
     distShardPlacementShardidIndexId |-> InvalidOid,
     extraDataContainerFuncId |-> InvalidOid]

\* no HasUniformHashDistribution runs
NoUniformCheck ==
    [shardIntervalArray |-> <<>>, shardIntervalArrayLength |-> 0, shardIndex |-> -1,
     shardMinHashToken |-> 0, shardMaxHashToken |-> 0, returned |-> "none"]

Init ==
    /\ DistTableCacheHash = [r \in RelationIds |-> NoEntry]
    /\ hashInitialized = FALSE
    /\ extensionLoaded = FALSE
    /\ cachedOids = NoOids
    /\ extensionPresent = TRUE
    /\ creatingExtension = FALSE
    /\ relationsExist = TRUE
    /\ pgDistPartition = [r \in RelationIds |-> NullTuple]
    /\ pgDistShard = [r \in RelationIds |-> <<>>]
    /\ pendingInval = {}
    /\ pc = "idle"
    /\ readPartitionTuple = NullTuple
    /\ readShardTupleList = <<>>
    /\ result = [op |-> "none", relationId |-> InvalidOid, outcome |-> "none", scans |-> 0]
    /\ WorkerNodeHash = NullHash
    /\ invalidationRegistered = FALSE
    /\ pgDistNode = <<>>
    /\ nodePc = "idle"
    /\ nodeResult = NoNodeResult
    /\ shardLoad = NoShardLoad
    /\ relcacheCallbacks = <<>>
    /\ uniformCheck = NoUniformCheck

(***************************************************************************)
(* The activation gate and the identifier cache.                           *)
(***************************************************************************)
get_relname_relid(relationName) ==
    IF relationsExist THEN RelationOid[relationName] ELSE InvalidOid

\* CachedRelationLookup: resolves a cached oid that is still InvalidOid
CachedRelationLookup(oids, cachedOid, relationName) ==
    IF oids[cachedOid] = InvalidOid
    THEN [oids EXCEPT ![cachedOid] = get_relname_relid(relationName)]
    ELSE oids

\* mutant: an extension whose script still runs counts as loaded
CitusHasBeenLoaded_IgnoresCreating ==
    IF extensionLoaded \/ extensionPresent
    THEN LET oids == CachedRelationLookup(cachedOids, "distPartitionRelationId",
                                          "pg_dist_partition")
         IN  [returns |-> TRUE, extensionLoaded |-> TRUE, cachedOids |-> oids,
              raised |-> oids.distPartitionRelationId = InvalidOid]
    ELSE [returns |-> FALSE, extensionLoaded |-> FALSE, cachedOids |-> cachedOids,
          raised |-> FALSE]

\* mutant: the cached positive determination is not used, every check probes
CitusHasBeenLoaded_AlwaysProbes ==
    LET loaded == extensionPresent /\ ~creatingExtension
        oids == CachedRelationLookup(cachedOids, "distPartitionRelationId",
                                     "pg_dist_partition")
    IN  IF ~loaded
        THEN [returns |-> FALSE, extensionLoaded |-> FALSE,
              cachedOids |-> cachedOids, raised |-> FALSE]
        ELSE [returns |-> TRUE, extensionLoaded |-> TRUE, cachedOids |-> oids,
              raised |-> oids.distPartitionRelationId = InvalidOid]

\* mutant: a check made while the gate is inactive does not probe
CitusHasBeenLoaded_NeverProbes ==
    [returns |-> extensionLoaded, extensionLoaded |-> extensionLoaded,
     cachedOids |-> cachedOids, raised |-> FALSE]

\* CitusHasBeenLoaded: what it returns, the gate and the oids it leaves, and
\* whether the lookup of pg_dist_partition raised
CitusHasBeenLoaded ==
    IF extensionLoaded
    THEN [returns |-> TRUE, extensionLoaded |-> TRUE, cachedOids |-> cachedOids,
          raised |-> FALSE]
    ELSE LET extensionScriptExecuted == ~(extensionPresent /\ creatingExtension)
             loaded == extensionPresent /\ extensionScriptExecuted
             oids == CachedRelationLookup(cachedOids, "distPartitionRelationId",
                                          "pg_dist_partition")
         IN  IF ~loaded
             THEN [returns |-> FALSE, extensionLoaded |-> FALSE,
                   cachedOids |-> cachedOids, raised |-> FALSE]
             ELSE [returns |-> TRUE, extensionLoaded |-> TRUE, cachedOids |-> oids,
                   raised |-> oids.distPartitionRelationId = InvalidOid]

(***************************************************************************)
(* The calls of the table cache.                                           *)
(***************************************************************************)
\* what a call returns from the entry LookupDistTableCacheEntry gave it
CallOutcome(operation, cacheEntry) ==
    IF operation = "IsDistributedTable"
    THEN (IF cacheEntry.isDistributedTable THEN "true" ELSE "false")
    ELSE IF operation = "IsTableMaster"
    THEN (IF cacheEntry.isOwner THEN "true" ELSE "false")
    ELSE IF cacheEntry.isDistributedTable THEN "entry" ELSE "NotDistributedError"

\* what a gated call returns when CitusHasBeenLoaded returned false
InactiveOutcome(operation) ==
    IF operation = "IsDistributedTable" THEN "false" ELSE "NULL"

Returned(operation, relationId, outcome, scans) ==
    [op |-> operation, relationId |-> relationId, outcome |-> outcome, scans |-> scans]

\* mutant: a found slot is returned whatever its validity
IsValidMatch_IgnoresValidity(cacheEntry) == cacheEntry # NoEntry

\* mutant: a valid slot is never returned, every lookup rebuilds
IsValidMatch_NeverMatches(cacheEntry) == FALSE

\* "return valid matches": the fast path of LookupDistTableCacheEntry
IsValidMatch(cacheEntry) == cacheEntry # NoEntry /\ cacheEntry.isValid

\* CacheRegisterRelcacheCallback: the callback is appended to the list
CacheRegisterRelcacheCallback(callbacks, callback) == Append(callbacks, callback)

\* where control is after LookupDistTableCacheEntry and its caller returned:
\* LoadShardInterval goes on with the entry, the other calls are over
AfterLookup(operation, outcome) ==
    IF operation = "LoadShardInterval" /\ outcome = "entry" THEN "entryReturned"
    ELSE "idle"

\* LookupDistTableCacheEntry up to the end of LookupDistPartitionTuple
LookupStart(operation, relationId, oids) ==
    LET cacheEntry == DistTableCacheHash[relationId]
        partitionOids ==
            CachedRelationLookup(
                CachedRelationLookup(oids, "distPartitionRelationId", "pg_dist_partition"),
                "distPartitionLogicalRelidIndexId", "pg_dist_partition_logical_relid_index")
    IN  /\ hashInitialized' = TRUE
        /\ relcacheCallbacks' =
              IF hashInitialized THEN relcacheCallbacks
              ELSE CacheRegisterRelcacheCallback(relcacheCallbacks,
                                                 "InvalidateDistRelationCacheCallback")
        /\ IF IsValidMatch(cacheEntry)
           THEN /\ result' = Returned(operation, relationId,
                                      CallOutcome(operation, cacheEntry), 0)
                /\ cachedOids' = oids
                /\ pc' = AfterLookup(operation, CallOutcome(operation, cacheEntry))
                /\ UNCHANGED <<DistTableCacheHash, readPartitionTuple, readShardTupleList>>
           ELSE /\ DistTableCacheHash' =
                     IF cacheEntry # NoEntry
                     THEN [DistTableCacheHash EXCEPT
                              ![relationId] = ResetDistTableCacheEntry(cacheEntry)]
                     ELSE DistTableCacheHash
                /\ IF ~relationsExist
                   THEN /\ result' = Returned(operation, relationId,
                                              "RelationLookupError", 0)
                        /\ cachedOids' = oids
                        /\ pc' = "idle"
                        /\ UNCHANGED <<readPartitionTuple, readShardTupleList>>
                   ELSE /\ result' = Returned(operation, relationId, "running", 1)
                        /\ cachedOids' = partitionOids
                        /\ readPartitionTuple' = pgDistPartition[relationId]
                        /\ pc' = "partitionRead"
                        /\ UNCHANGED readShardTupleList

\* IsDistributedTable, IsTableMaster, DistributedTableCacheEntry: the gate check
\* of the gated calls, then the lookup
Call(operation, relationId) ==
    /\ pc = "idle"
    /\ nodePc = "idle"
    /\ LET gate == IF operation = "IsTableMaster"
                   THEN [returns |-> TRUE, extensionLoaded |-> extensionLoaded,
                         cachedOids |-> cachedOids, raised |-> FALSE]
                   ELSE CitusHasBeenLoaded
       IN  /\ extensionLoaded' = gate.extensionLoaded
           /\ IF gate.raised
              THEN /\ result' = Returned(operation, relationId, "RelationLookupError", 0)
                   /\ cachedOids' = gate.cachedOids
                   /\ UNCHANGED <<DistTableCacheHash, hashInitialized, locals,
                                  relcacheCallbacks>>
              ELSE IF ~gate.returns
              THEN /\ result' = Returned(operation, relationId,
                                         InactiveOutcome(operation), 0)
                   /\ cachedOids' = gate.cachedOids
                   /\ UNCHANGED <<DistTableCacheHash, hashInitialized, locals,
                                  relcacheCallbacks>>
              ELSE LookupStart(operation, relationId, gate.cachedOids)
    /\ UNCHANGED <<environment, catalog, pendingInval>>
    /\ UNCHANGED workerNodeCache
    /\ UNCHANGED shardLoad
    /\ UNCHANGED uniformCheck

\* LookupDistShardTuples of the running lookup
LookupReadShards ==
    /\ pc = "partitionRead"
    /\ cachedOids' =
          CachedRelationLookup(
              CachedRelationLookup(cachedOids, "distShardRelationId", "pg_dist_shard"),
              "distShardLogicalRelidIndexId", "pg_dist_shard_logical_relid_index")
    /\ readShardTupleList' = pgDistShard[result.relationId]
    /\ pc' = "shardsRead"
    /\ result' = [result EXCEPT !.scans = 2]
    /\ UNCHANGED <<DistTableCacheHash, hashInitialized, extensionLoaded, environment,
                   catalog, pendingInval, readPartitionTuple>>
    /\ UNCHANGED workerNodeCache
    /\ UNCHANGED shardLoad
    /\ UNCHANGED relcacheCallbacks
    /\ UNCHANGED uniformCheck

\* mutant: the slot is entered and marked valid before the build, so a build
\* that raises leaves it behind
StoreBuilt_EnterBeforeBuild(relationId, build) ==
    IF build.err # "none"
    THEN [DistTableCacheHash EXCEPT
            ![relationId] = [ZeroedEntry(relationId) EXCEPT !.isValid = TRUE]]
    ELSE [DistTableCacheHash EXCEPT ![relationId] = build.cacheEntry]

\* mutant: the hash function of the slot is overwritten only by another one
StoreBuilt_KeepsHashFunction(relationId, build) ==
    IF build.err # "none" THEN DistTableCacheHash
    ELSE IF DistTableCacheHash[relationId] # NoEntry
            /\ build.cacheEntry.hashFunction = NullFmgrInfo
    THEN [DistTableCacheHash EXCEPT
            ![relationId] = [build.cacheEntry EXCEPT
                                !.hashFunction = DistTableCacheHash[relationId].hashFunction]]
    ELSE [DistTableCacheHash EXCEPT ![relationId] = build.cacheEntry]

\* mutant: without the memset, the entry of a table that has no partition tuple
\* keeps what the slot held
StoreBuilt_NoMemset(relationId, build) ==
    IF build.err # "none" THEN DistTableCacheHash
    ELSE IF ~build.cacheEntry.isDistributedTable /\ DistTableCacheHash[relationId] # NoEntry
    THEN [DistTableCacheHash EXCEPT
            ![relationId] = [@ EXCEPT !.isValid = TRUE, !.isDistributedTable = FALSE]]
    ELSE [DistTableCacheHash EXCEPT ![relationId] = build.cacheEntry]

\* hash_search(HASH_ENTER) and the assignments of the slot, reached only when
\* the build raised nothing
StoreBuilt(relationId, build) ==
    IF build.err # "none" THEN DistTableCacheHash
    ELSE [DistTableCacheHash EXCEPT ![relationId] = build.cacheEntry]

\* the rest of the running lookup: the entry is built and stored, or the build
\* raises and the slot is not written
LookupFinish ==
    /\ pc = "shardsRead"
    /\ LET build == BuildCacheEntry(result.relationId, readPartitionTuple,
                                    readShardTupleList)
       IN  /\ result' = [result EXCEPT
                             !.outcome = IF build.err # "none" THEN build.err
                                         ELSE CallOutcome(result.op, build.cacheEntry)]
           /\ DistTableCacheHash' = StoreBuilt(result.relationId, build)
    /\ cachedOids' =
          IF Len(readShardTupleList) > 0
          THEN CachedRelationLookup(cachedOids, "distShardRelationId", "pg_dist_shard")
          ELSE cachedOids
    /\ pc' = AfterLookup(result.op, result'.outcome)
    /\ readPartitionTuple' = NullTuple
    /\ readShardTupleList' = <<>>
    /\ UNCHANGED <<hashInitialized, extensionLoaded, environment, catalog, pendingInval>>
    /\ UNCHANGED workerNodeCache
    /\ UNCHANGED shardLoad
    /\ UNCHANGED relcacheCallbacks
    /\ UNCHANGED uniformCheck

(***************************************************************************)
(* LoadShardInterval: one shard by its id, read from pg_dist_shard.        *)
(***************************************************************************)
\* mutant: the scan key is dropped, the scan yields the rows of every shard
ShardTuplesById_AnyShard(shardId) ==
    {heapTuple \in UNION {{pgDistShard[r][i] : i \in 1..Len(pgDistShard[r])} :
                              r \in RelationIds} : TRUE}

\* the index scan of pg_dist_shard with the key shardid = shardId
ShardTuplesById(shardId) ==
    {heapTuple \in UNION {{pgDistShard[r][i] : i \in 1..Len(pgDistShard[r])} :
                              r \in RelationIds} : heapTuple.shardid = shardId}

\* LoadShardInterval up to the first tuple of the scan
LoadShardInterval(shardId) ==
    /\ pc = "idle"
    /\ nodePc = "idle"
    /\ IF ~relationsExist
       THEN /\ result' = Returned("LoadShardInterval", InvalidOid, "RelationLookupError", 0)
            /\ shardLoad' = [NoShardLoad EXCEPT !.shardId = shardId]
            /\ UNCHANGED <<cachedOids, pc>>
       ELSE /\ cachedOids' =
                  CachedRelationLookup(
                      CachedRelationLookup(cachedOids, "distShardRelationId", "pg_dist_shard"),
                      "distShardShardidIndexId", "pg_dist_shard_shardid_index")
            /\ IF ShardTuplesById(shardId) = {}
               THEN /\ result' = Returned("LoadShardInterval", InvalidOid,
                                          "ShardNotFoundError", 0)
                    /\ shardLoad' = [NoShardLoad EXCEPT !.shardId = shardId]
                    /\ UNCHANGED pc
               ELSE \E heapTuple \in ShardTuplesById(shardId) :
                       /\ result' = Returned("LoadShardInterval", heapTuple.logicalrelid,
                                             "running", 0)
                       /\ shardLoad' = [shardId |-> shardId, heapTuple |-> heapTuple,
                                        shardInterval |-> NoShardInterval]
                       /\ pc' = "shardTupleRead"
    /\ UNCHANGED <<tableCache, environment, catalog, pendingInval, readPartitionTuple,
                   readShardTupleList>>
    /\ UNCHANGED workerNodeCache
    /\ UNCHANGED relcacheCallbacks
    /\ UNCHANGED uniformCheck

\* DistributedTableCacheEntry(shardForm->logicalrelid) of the running
\* LoadShardInterval; the NULL it returns while the gate is inactive is
\* dereferenced
LoadShardIntervalEntry ==
    /\ pc = "shardTupleRead"
    /\ LET gate == CitusHasBeenLoaded
           relationId == shardLoad.heapTuple.logicalrelid
       IN  /\ extensionLoaded' = gate.extensionLoaded
           /\ IF gate.raised \/ ~gate.returns
              THEN /\ result' = Returned("LoadShardInterval", relationId,
                                         IF gate.raised THEN "RelationLookupError"
                                         ELSE "crash", 0)
                   /\ cachedOids' = gate.cachedOids
                   /\ pc' = "idle"
                   /\ UNCHANGED <<DistTableCacheHash, hashInitialized, readPartitionTuple,
                                  readShardTupleList, relcacheCallbacks>>
              ELSE LookupStart("LoadShardInterval", relationId, gate.cachedOids)
    /\ UNCHANGED <<environment, catalog, pendingInval>>
    /\ UNCHANGED workerNodeCache
    /\ UNCHANGED shardLoad
    /\ UNCHANGED uniformCheck

\* the rest of LoadShardInterval: the type of the bounds from the entry, then
\* the conversion of the tuple read first
LoadShardIntervalFinish ==
    /\ pc = "entryReturned"
    /\ LET partitionEntry == DistTableCacheHash[result.relationId]
           typeInfo == GetPartitionTypeInputInfo(partitionEntry.partitionKeyString,
                                                 partitionEntry.partitionMethod)
           converted == TupleToShardInterval(shardLoad.heapTuple, typeInfo.intervalTypeId,
                                             typeInfo.intervalTypeMod)
           err == IF typeInfo.err # "none" THEN typeInfo.err ELSE converted.err
       IN  /\ result' = [result EXCEPT
                             !.outcome = IF err # "none" THEN err ELSE "interval"]
           /\ shardLoad' = [shardLoad EXCEPT
                                !.shardInterval = IF err # "none" THEN NoShardInterval
                                                  ELSE converted.shardInterval]
    /\ pc' = "idle"
    /\ UNCHANGED <<tableCache, cachedOids, environment, catalog, pendingInval,
                   readPartitionTuple, readShardTupleList>>
    /\ UNCHANGED workerNodeCache
    /\ UNCHANGED relcacheCallbacks
    /\ UNCHANGED uniformCheck

(***************************************************************************)
(* Invalidation Coordinator.                                               *)
(***************************************************************************)
\* the places of a running lookup at which invalidation messages are accepted:
\* every lock acquisition (heap_open) of the lookup
AcceptsInvalidation ==
    /\ pc # "shardsRead" \/ Len(readShardTupleList) > 0
    /\ pc \notin {"shardTupleRead", "entryReturned"}

\* mutant: the callback frees the content of the entry it invalidates
MarkInvalid_FreesContent(cacheEntry) ==
    [ResetDistTableCacheEntry(cacheEntry) EXCEPT !.isValid = FALSE]

\* cacheEntry->isValid = false
MarkInvalid(cacheEntry) == [cacheEntry EXCEPT !.isValid = FALSE]

\* mutant: the sequential scan stops after the first slot
InvalidateAllEntries_FirstOnly(cacheHash) ==
    LET first == CHOOSE r \in RelationIds :
                    /\ cacheHash[r] # NoEntry
                    /\ \A q \in RelationIds : cacheHash[q] # NoEntry => r <= q
    IN  IF \A r \in RelationIds : cacheHash[r] = NoEntry THEN cacheHash
        ELSE [cacheHash EXCEPT ![first] = MarkInvalid(cacheHash[first])]

\* the hash_seq_search loop of the wildcard notification
InvalidateAllEntries(cacheHash) ==
    [r \in RelationIds |->
        IF cacheHash[r] = NoEntry THEN NoEntry ELSE MarkInvalid(cacheHash[r])]

\* mutant: the wildcard notification is taken for one of pg_dist_partition too
IsPartitionRelation_OrWildcard(relationId, partitionRelationId) ==
    relationId = InvalidOid \/ relationId = partitionRelationId

\* relationId != InvalidOid && relationId == distPartitionRelationId
IsPartitionRelation(relationId, partitionRelationId) ==
    relationId # InvalidOid /\ relationId = partitionRelationId

\* what the two callbacks read and write
BackendCaches ==
    [cacheHash |-> DistTableCacheHash, extensionLoaded |-> extensionLoaded,
     cachedOids |-> cachedOids, workerNodeHash |-> WorkerNodeHash, raised |-> FALSE]

\* mutant: the reset of the gate marks every entry invalid
InvalidateDistRelationCache_ResetInvalidatesAll(relationId, backend) ==
    LET isReset == IsPartitionRelation(relationId,
                                       backend.cachedOids.distPartitionRelationId)
        cacheHash == backend.cacheHash
    IN  [backend EXCEPT
            !.cacheHash =
                IF relationId = InvalidOid \/ isReset THEN InvalidateAllEntries(cacheHash)
                ELSE IF cacheHash[relationId] # NoEntry
                THEN [cacheHash EXCEPT ![relationId] = MarkInvalid(@)]
                ELSE cacheHash,
            !.extensionLoaded = IF isReset THEN FALSE ELSE @,
            !.cachedOids = IF isReset THEN NoOids ELSE @]

\* the body of InvalidateDistRelationCacheCallback
InvalidateDistRelationCache(relationId, backend) ==
    LET isReset == IsPartitionRelation(relationId,
                                       backend.cachedOids.distPartitionRelationId)
        cacheHash == backend.cacheHash
    IN  [backend EXCEPT
            !.cacheHash =
                IF relationId = InvalidOid THEN InvalidateAllEntries(cacheHash)
                ELSE IF cacheHash[relationId] # NoEntry
                THEN [cacheHash EXCEPT ![relationId] = MarkInvalid(@)]
                ELSE cacheHash,
            !.extensionLoaded = IF isReset THEN FALSE ELSE @,
            !.cachedOids = IF isReset THEN NoOids ELSE @]

\* InvalidateDistRelationCacheCallback, in a backend that has not registered the
\* callback of the worker node hash
InvalidateDistRelationCacheCallback(relationId) ==
    /\ hashInitialized
    /\ ~invalidationRegistered
    /\ AcceptsInvalidation
    /\ LET backend == InvalidateDistRelationCache(relationId, BackendCaches)
       IN  /\ DistTableCacheHash' = backend.cacheHash
           /\ extensionLoaded' = backend.extensionLoaded
           /\ cachedOids' = backend.cachedOids
    /\ pendingInval' = IF relationId = InvalidOid THEN {} ELSE pendingInval \ {relationId}
    /\ UNCHANGED <<hashInitialized, environment, catalog, locals, result>>
    /\ UNCHANGED workerNodeCache
    /\ UNCHANGED shardLoad
    /\ UNCHANGED relcacheCallbacks
    /\ UNCHANGED uniformCheck

(***************************************************************************)
(* The environment: other sessions change the catalog.                     *)
(***************************************************************************)
\* an INSERT, UPDATE or DELETE of the partition tuple of a relation
PartitionChange(relationId, partitionTuple) ==
    /\ relationsExist
    /\ partitionTuple # pgDistPartition[relationId]
    /\ pgDistPartition' = [pgDistPartition EXCEPT ![relationId] = partitionTuple]
    /\ pendingInval' = pendingInval \cup {relationId}
    /\ UNCHANGED <<DistTableCacheHash, hashInitialized, extensionLoaded, cachedOids,
                   environment, pgDistShard, locals, result>>
    /\ UNCHANGED workerNodeCache
    /\ UNCHANGED shardLoad
    /\ UNCHANGED relcacheCallbacks
    /\ UNCHANGED uniformCheck

\* INSERTs, UPDATEs or DELETEs of shard tuples of a relation
ShardChange(relationId, shardTupleList) ==
    /\ relationsExist
    /\ shardTupleList # pgDistShard[relationId]
    /\ pgDistShard' = [pgDistShard EXCEPT ![relationId] = shardTupleList]
    /\ pendingInval' = pendingInval \cup {relationId}
    /\ UNCHANGED <<DistTableCacheHash, hashInitialized, extensionLoaded, cachedOids,
                   environment, pgDistPartition, locals, result>>
    /\ UNCHANGED workerNodeCache
    /\ UNCHANGED shardLoad
    /\ UNCHANGED relcacheCallbacks
    /\ UNCHANGED uniformCheck

\* DROP EXTENSION citus: the pg_dist_* relations and their rows go, and the
\* relcache invalidation of pg_dist_partition is queued
DropExtension ==
    /\ pc = "idle"
    /\ nodePc = "idle"
    /\ extensionPresent /\ ~creatingExtension
    /\ extensionPresent' = FALSE
    /\ relationsExist' = FALSE
    /\ pgDistPartition' = [r \in RelationIds |-> NullTuple]
    /\ pgDistShard' = [r \in RelationIds |-> <<>>]
    /\ pgDistNode' = <<>>
    /\ pendingInval' = pendingInval \cup {PgDistPartitionOid}
    /\ UNCHANGED <<DistTableCacheHash, hashInitialized, extensionLoaded, cachedOids,
                   creatingExtension, locals, result>>
    /\ UNCHANGED <<WorkerNodeHash, invalidationRegistered, nodePc, nodeResult>>
    /\ UNCHANGED shardLoad
    /\ UNCHANGED relcacheCallbacks
    /\ UNCHANGED uniformCheck

\* CREATE EXTENSION citus starts: pg_extension holds citus, its script runs
BeginCreateExtension ==
    /\ pc = "idle"
    /\ ~extensionPresent
    /\ extensionPresent' = TRUE
    /\ creatingExtension' = TRUE
    /\ UNCHANGED <<DistTableCacheHash, hashInitialized, extensionLoaded, cachedOids,
                   relationsExist, catalog, pendingInval, locals, result>>
    /\ UNCHANGED workerNodeCache
    /\ UNCHANGED shardLoad
    /\ UNCHANGED relcacheCallbacks
    /\ UNCHANGED uniformCheck

\* the extension script creates the pg_dist_* relations
CreateRelations ==
    /\ pc = "idle"
    /\ creatingExtension /\ ~relationsExist
    /\ relationsExist' = TRUE
    /\ UNCHANGED <<DistTableCacheHash, hashInitialized, extensionLoaded, cachedOids,
                   extensionPresent, creatingExtension, catalog, pendingInval, locals,
                   result>>
    /\ UNCHANGED workerNodeCache
    /\ UNCHANGED shardLoad
    /\ UNCHANGED relcacheCallbacks
    /\ UNCHANGED uniformCheck

\* the extension script ends
EndCreateExtension ==
    /\ pc = "idle"
    /\ creatingExtension /\ relationsExist
    /\ creatingExtension' = FALSE
    /\ UNCHANGED <<DistTableCacheHash, hashInitialized, extensionLoaded, cachedOids,
                   extensionPresent, relationsExist, catalog, pendingInval, locals,
                   result>>
    /\ UNCHANGED workerNodeCache
    /\ UNCHANGED shardLoad
    /\ UNCHANGED relcacheCallbacks
    /\ UNCHANGED uniformCheck

\* the restore of a binary upgrade registers the extension without running its
\* script: pg_extension holds citus, creating_extension is not set, and the
\* pg_dist_* relations are not there yet
CreateEmptyExtension ==
    /\ pc = "idle"
    /\ ~extensionPresent
    /\ extensionPresent' = TRUE
    /\ UNCHANGED <<DistTableCacheHash, hashInitialized, extensionLoaded, cachedOids,
                   creatingExtension, relationsExist, catalog, pendingInval, locals,
                   result>>
    /\ UNCHANGED workerNodeCache
    /\ UNCHANGED shardLoad
    /\ UNCHANGED relcacheCallbacks
    /\ UNCHANGED uniformCheck

\* the restore creates the pg_dist_* relations of the registered extension
RestoreRelations ==
    /\ pc = "idle"
    /\ extensionPresent /\ ~creatingExtension /\ ~relationsExist
    /\ relationsExist' = TRUE
    /\ UNCHANGED <<DistTableCacheHash, hashInitialized, extensionLoaded, cachedOids,
                   extensionPresent, creatingExtension, catalog, pendingInval, locals,
                   result>>
    /\ UNCHANGED workerNodeCache
    /\ UNCHANGED shardLoad
    /\ UNCHANGED relcacheCallbacks
    /\ UNCHANGED uniformCheck

(***************************************************************************)
(* Worker Node Registry.                                                   *)
(***************************************************************************)
\* GetWorkerNodeHash, and InitializeWorkerNodeCache up to the heap_open of
\* ReadWorkerNodes: the hash is created before pg_dist_node is opened; the
\* lookup of pg_dist_node by name, or the heap_open of an oid resolved before
\* the relation was dropped, raises while the relation does not exist
GetWorkerNodeHash ==
    /\ pc = "idle" /\ nodePc = "idle"
    /\ IF WorkerNodeHash # NullHash
       THEN /\ nodeResult' = [outcome |-> "hash", scans |-> 0, warnings |-> 0,
                              hash |-> WorkerNodeHash]
            /\ UNCHANGED <<WorkerNodeHash, nodePc, cachedOids>>
       ELSE LET oids == CachedRelationLookup(cachedOids, "distNodeRelationId",
                                             "pg_dist_node")
            IN  /\ WorkerNodeHash' = EmptyWorkerNodeHash
                /\ cachedOids' = oids
                /\ IF oids.distNodeRelationId = InvalidOid \/ ~relationsExist
                   THEN /\ nodeResult' = [outcome |-> "RelationLookupError", scans |-> 0,
                                          warnings |-> 0, hash |-> NullHash]
                        /\ UNCHANGED nodePc
                   ELSE /\ nodeResult' = [outcome |-> "running", scans |-> 0,
                                          warnings |-> 0, hash |-> NullHash]
                        /\ nodePc' = "hashCreated"
    /\ UNCHANGED <<tableCache, environment, catalog, pendingInval, locals, result,
                   invalidationRegistered, pgDistNode>>
    /\ UNCHANGED shardLoad
    /\ UNCHANGED relcacheCallbacks
    /\ UNCHANGED uniformCheck

\* the rest of InitializeWorkerNodeCache: the scan of pg_dist_node, the loop
\* that fills the hash, the registration of the callback. A hash that the
\* callback destroyed during heap_open is NULL here: hash_search on it is a
\* NULL dereference that ends the backend, unless the scan returned no row
InitializeWorkerNodeCache ==
    /\ nodePc = "hashCreated"
    /\ nodePc' = "idle"
    /\ LET workerNodeList == ReadWorkerNodes(pgDistNode)
           filled == FillWorkerNodeHash([hash |-> WorkerNodeHash, warnings |-> 0],
                                        workerNodeList)
           registered == IF invalidationRegistered THEN relcacheCallbacks
                         ELSE CacheRegisterRelcacheCallback(
                                  relcacheCallbacks, "InvalidateNodeRelationCacheCallback")
       IN  IF WorkerNodeHash = NullHash /\ workerNodeList # <<>>
           THEN /\ nodeResult' = [outcome |-> "crash", scans |-> 1, warnings |-> 0,
                                  hash |-> NullHash]
                /\ WorkerNodeHash' = NullHash
                /\ invalidationRegistered' = FALSE
                /\ relcacheCallbacks' = <<>>
                /\ cachedOids' = NoOids
                /\ DistTableCacheHash' = [r \in RelationIds |-> NoEntry]
                /\ hashInitialized' = FALSE
                /\ extensionLoaded' = FALSE
           ELSE IF WorkerNodeHash = NullHash
           THEN /\ nodeResult' = [outcome |-> "NULL", scans |-> 1, warnings |-> 0,
                                  hash |-> NullHash]
                /\ invalidationRegistered' = TRUE
                /\ relcacheCallbacks' = registered
                /\ UNCHANGED <<WorkerNodeHash, cachedOids, tableCache>>
           ELSE /\ nodeResult' = [outcome |-> "hash", scans |-> 1,
                                  warnings |-> filled.warnings, hash |-> filled.hash]
                /\ WorkerNodeHash' = filled.hash
                /\ invalidationRegistered' = TRUE
                /\ relcacheCallbacks' = registered
                /\ UNCHANGED <<cachedOids, tableCache>>
    /\ UNCHANGED <<environment, catalog, pendingInval, locals, result, pgDistNode>>
    /\ UNCHANGED shardLoad
    /\ UNCHANGED uniformCheck

\* mutant: the callback destroys the hash for no relation
NodeRelationMatches_Never(relationId, nodeRelationId) == FALSE

\* relationId == DistNodeRelationId()
NodeRelationMatches(relationId, nodeRelationId) == relationId = nodeRelationId

\* mutant: the wildcard notification destroys the hash too
InvalidateNodeRelationCache_OrWildcard(relationId, backend) ==
    IF backend.workerNodeHash = NullHash THEN backend
    ELSE LET oids == CachedRelationLookup(backend.cachedOids, "distNodeRelationId",
                                          "pg_dist_node")
         IN  IF oids.distNodeRelationId = InvalidOid
             THEN [backend EXCEPT !.cachedOids = oids, !.raised = TRUE]
             ELSE [backend EXCEPT
                      !.cachedOids = oids,
                      !.workerNodeHash =
                          IF \/ relationId = InvalidOid
                             \/ NodeRelationMatches(relationId, oids.distNodeRelationId)
                          THEN NullHash ELSE @]

\* the body of InvalidateNodeRelationCacheCallback; DistNodeRelationId() raises
\* an error when pg_dist_node cannot be found
InvalidateNodeRelationCache(relationId, backend) ==
    IF backend.workerNodeHash = NullHash THEN backend
    ELSE LET oids == CachedRelationLookup(backend.cachedOids, "distNodeRelationId",
                                          "pg_dist_node")
         IN  IF oids.distNodeRelationId = InvalidOid
             THEN [backend EXCEPT !.cachedOids = oids, !.raised = TRUE]
             ELSE [backend EXCEPT
                      !.cachedOids = oids,
                      !.workerNodeHash =
                          IF NodeRelationMatches(relationId, oids.distNodeRelationId)
                          THEN NullHash ELSE @]

\* InvalidateNodeRelationCacheCallback, in a backend that has not initialized
\* the table cache; it runs wherever invalidation messages are accepted:
\* between calls and in the heap_open of a running InitializeWorkerNodeCache
InvalidateNodeRelationCacheCallback(relationId) ==
    /\ invalidationRegistered
    /\ ~hashInitialized
    /\ LET backend == InvalidateNodeRelationCache(relationId, BackendCaches)
       IN  /\ WorkerNodeHash' = backend.workerNodeHash
           /\ cachedOids' = backend.cachedOids
           /\ nodeResult' = IF backend.raised
                            THEN [nodeResult EXCEPT !.outcome = "RelationLookupError"]
                            ELSE nodeResult
    /\ pendingInval' = IF relationId = InvalidOid THEN {} ELSE pendingInval \ {relationId}
    /\ UNCHANGED <<tableCache, environment, catalog, locals, result,
                   invalidationRegistered, pgDistNode, nodePc>>
    /\ UNCHANGED shardLoad
    /\ UNCHANGED relcacheCallbacks
    /\ UNCHANGED uniformCheck

\* another session inserts, updates or deletes rows of pg_dist_node and
\* registers the relcache invalidation of pg_dist_node
NodeChange(nodeTuples) ==
    /\ relationsExist
    /\ nodeTuples # pgDistNode
    /\ pgDistNode' = nodeTuples
    /\ pendingInval' = pendingInval \cup {PgDistNodeOid}
    /\ UNCHANGED <<tableCache, cachedOids, environment, catalog, locals, result,
                   WorkerNodeHash, invalidationRegistered, nodePc, nodeResult>>
    /\ UNCHANGED shardLoad
    /\ UNCHANGED relcacheCallbacks
    /\ UNCHANGED uniformCheck

(***************************************************************************)
(* A backend that registered both callbacks: a notification runs them in   *)
(* the order of their registration.                                        *)
(***************************************************************************)
\* the registered callbacks run one after the other; an error ends the run
RECURSIVE CallRelcacheCallbacks(_, _, _)
CallRelcacheCallbacks(callbacks, relationId, backend) ==
    IF callbacks = <<>> \/ backend.raised THEN backend
    ELSE CallRelcacheCallbacks(
             Tail(callbacks), relationId,
             IF Head(callbacks) = "InvalidateDistRelationCacheCallback"
             THEN InvalidateDistRelationCache(relationId, backend)
             ELSE InvalidateNodeRelationCache(relationId, backend))

\* a notification in a backend that registered both callbacks; an error of a
\* callback ends the call that accepted the notification
RelcacheInvalidation(relationId) ==
    /\ hashInitialized
    /\ invalidationRegistered
    /\ AcceptsInvalidation
    /\ LET backend == CallRelcacheCallbacks(relcacheCallbacks, relationId, BackendCaches)
       IN  /\ DistTableCacheHash' = backend.cacheHash
           /\ extensionLoaded' = backend.extensionLoaded
           /\ cachedOids' = backend.cachedOids
           /\ WorkerNodeHash' = backend.workerNodeHash
           /\ IF backend.raised
              THEN /\ nodeResult' = IF nodePc = "idle" THEN nodeResult
                                    ELSE [nodeResult EXCEPT
                                             !.outcome = "RelationLookupError"]
                   /\ nodePc' = "idle"
                   /\ result' = IF pc = "idle" THEN result
                                ELSE [result EXCEPT !.outcome = "RelationLookupError"]
                   /\ pc' = "idle"
                   /\ readPartitionTuple' = NullTuple
                   /\ readShardTupleList' = <<>>
              ELSE UNCHANGED <<nodeResult, nodePc, result, locals>>
    /\ pendingInval' = IF relationId = InvalidOid THEN {} ELSE pendingInval \ {relationId}
    /\ UNCHANGED uniformCheck
    /\ UNCHANGED <<hashInitialized, invalidationRegistered, relcacheCallbacks,
                   environment, catalog, pgDistNode, shardLoad>>

(***************************************************************************)
(* Specifications.                                                         *)
(***************************************************************************)
\* one table whose catalog rows change freely, the extension installed throughout
Next ==
    \/ \E operation \in Operations, relationId \in Tables : Call(operation, relationId)
    \/ LookupReadShards
    \/ LookupFinish
    \/ \E relationId \in Tables \cup {InvalidOid} :
          InvalidateDistRelationCacheCallback(relationId)
    \/ \E relationId \in Tables, partitionTuple \in PartitionTuples :
          PartitionChange(relationId, partitionTuple)
    \/ \E relationId \in Tables :
          \E shardTupleList \in ShardTupleLists(relationId) :
             ShardChange(relationId, shardTupleList)

Spec == Init /\ [][Next]_vars

\* NumTables tables with fixed catalog rows: a hash table with the two halves
\* of the token space, a table that is not distributed, a range table with a
\* shard without bounds, and so on in turn
ManyTables == 1..NumTables

TablePartitionTuple(relationId) ==
    IF relationId \notin ManyTables THEN NullTuple
    ELSE IF relationId % 3 = 1 THEN PartitionTuple(DISTRIBUTE_BY_HASH, KeyInt4, TRUE, FALSE)
    ELSE IF relationId % 3 = 2 THEN NullTuple
    ELSE PartitionTuple(DISTRIBUTE_BY_RANGE, KeyInt4, FALSE, TRUE)

TableShardTuples(relationId) ==
    IF relationId \notin ManyTables THEN <<>>
    ELSE IF relationId % 3 = 1
    THEN ScanOrder({t \in ShardTuples(relationId) : t.shardid \in {1, 2}})
    ELSE IF relationId % 3 = 2 THEN <<>>
    ELSE ScanOrder({t \in ShardTuples(relationId) : t.shardid \in {1, 3}})

InitTables ==
    /\ DistTableCacheHash = [r \in RelationIds |-> NoEntry]
    /\ hashInitialized = FALSE
    /\ extensionLoaded = FALSE
    /\ cachedOids = NoOids
    /\ extensionPresent = TRUE
    /\ creatingExtension = FALSE
    /\ relationsExist = TRUE
    /\ pgDistPartition = [r \in RelationIds |-> TablePartitionTuple(r)]
    /\ pgDistShard = [r \in RelationIds |-> TableShardTuples(r)]
    /\ pendingInval = {}
    /\ pc = "idle"
    /\ readPartitionTuple = NullTuple
    /\ readShardTupleList = <<>>
    /\ result = [op |-> "none", relationId |-> InvalidOid, outcome |-> "none", scans |-> 0]
    /\ WorkerNodeHash = NullHash
    /\ invalidationRegistered = FALSE
    /\ pgDistNode = <<>>
    /\ nodePc = "idle"
    /\ nodeResult = NoNodeResult
    /\ shardLoad = NoShardLoad
    /\ relcacheCallbacks = <<>>
    /\ uniformCheck = NoUniformCheck

NextTables ==
    \/ \E relationId \in ManyTables : Call("IsTableMaster", relationId)
    \/ LookupReadShards
    \/ LookupFinish
    \/ \E relationId \in ManyTables \cup {InvalidOid} :
          InvalidateDistRelationCacheCallback(relationId)

SpecTables == InitTables /\ [][NextTables]_vars

\* a table that is distributed or not, while the extension is dropped and
\* created again
GateTables == {1}

GatePartitionTuples ==
    {NullTuple, PartitionTuple(DISTRIBUTE_BY_HASH, KeyInt4, TRUE, FALSE)}

NextGate ==
    \/ \E operation \in Operations, relationId \in GateTables :
          Call(operation, relationId)
    \/ LookupReadShards
    \/ LookupFinish
    \/ \E relationId \in GateTables \cup {InvalidOid, PgDistPartitionOid} :
          InvalidateDistRelationCacheCallback(relationId)
    \/ \E relationId \in GateTables, partitionTuple \in GatePartitionTuples :
          PartitionChange(relationId, partitionTuple)
    \/ DropExtension
    \/ BeginCreateExtension
    \/ CreateRelations
    \/ EndCreateExtension

SpecGate == Init /\ [][NextGate]_vars

\* the gate while the extension is dropped and then created by its script or
\* registered empty and restored relation by relation
NextRestore ==
    \/ \E operation \in Operations, relationId \in GateTables :
          Call(operation, relationId)
    \/ LookupReadShards
    \/ LookupFinish
    \/ \E relationId \in GateTables \cup {InvalidOid, PgDistPartitionOid} :
          InvalidateDistRelationCacheCallback(relationId)
    \/ \E relationId \in GateTables, partitionTuple \in GatePartitionTuples :
          PartitionChange(relationId, partitionTuple)
    \/ DropExtension
    \/ BeginCreateExtension
    \/ CreateRelations
    \/ EndCreateExtension
    \/ CreateEmptyExtension
    \/ RestoreRelations

SpecRestore == Init /\ [][NextRestore]_vars

\* the worker node hash of a backend that never looks up a table, while other
\* sessions change pg_dist_node
NextNodes ==
    \/ GetWorkerNodeHash
    \/ InitializeWorkerNodeCache
    \/ \E relationId \in Tables \cup {InvalidOid, PgDistNodeOid} :
          InvalidateNodeRelationCacheCallback(relationId)
    \/ \E nodeTuples \in NodeTupleLists : NodeChange(nodeTuples)

SpecNodes == Init /\ [][NextNodes]_vars

\* one table whose shards are loaded by id while other sessions change its rows;
\* the row of shard 1 is also rewritten with other bounds
LoadTables == {1}

LoadShardTupleLists(logicalrelid) ==
    {<<>>,
     <<ShardTuple(logicalrelid, 1, TextDatum(INT32_MIN), TextDatum(-1))>>,
     <<ShardTuple(logicalrelid, 1, TextDatum(INT32_MIN), TextDatum(-2))>>,
     <<ShardTuple(logicalrelid, 2, TextDatum(0), TextDatum(INT32_MAX)),
       ShardTuple(logicalrelid, 1, TextDatum(INT32_MIN), TextDatum(-1))>>,
     <<ShardTuple(logicalrelid, 3, TextDatum(0), NullDatum)>>}

LoadPartitionTuples ==
    {NullTuple,
     PartitionTuple(DISTRIBUTE_BY_HASH, KeyInt4, TRUE, FALSE),
     PartitionTuple(DISTRIBUTE_BY_RANGE, KeyInt4, FALSE, TRUE),
     PartitionTuple(UnsupportedMethod, KeyInt4, FALSE, FALSE)}

\* the shard ids asked for: those of the rows and one no row has
LoadShardIds == 1..4

NextLoad ==
    \/ \E shardId \in LoadShardIds : LoadShardInterval(shardId)
    \/ LoadShardIntervalEntry
    \/ LookupReadShards
    \/ LookupFinish
    \/ LoadShardIntervalFinish
    \/ \E relationId \in LoadTables : InvalidateDistRelationCacheCallback(relationId)
    \/ \E relationId \in LoadTables, partitionTuple \in LoadPartitionTuples :
          PartitionChange(relationId, partitionTuple)
    \/ \E relationId \in LoadTables :
          \E shardTupleList \in LoadShardTupleLists(relationId) :
             ShardChange(relationId, shardTupleList)

SpecLoad == Init /\ [][NextLoad]_vars

\* one table whose shard rows are fixed: the scan returns between none and
\* MaxScanLength of them, in any order, each with the bounds of a range of a
\* uniform layout or without a bound, or it returns a uniform layout in any
\* order with one of its bounds moved by one
UniformBounds(shardIndex, shardCount) ==
    [min |-> INT32_MIN + shardIndex * (HASH_TOKEN_COUNT \div shardCount),
     max |-> IF shardIndex = shardCount - 1 THEN INT32_MAX
             ELSE INT32_MIN + (shardIndex + 1) * (HASH_TOKEN_COUNT \div shardCount) - 1]

BoundsDatums(bounds) == [min |-> TextDatum(bounds.min), max |-> TextDatum(bounds.max)]

ClassifyBounds ==
    UNION {{BoundsDatums(UniformBounds(shardIndex, shardCount)) :
               shardIndex \in 0..(shardCount - 1)} : shardCount \in 1..MaxScanLength}
    \cup {[min |-> NullDatum, max |-> NullDatum],
          [min |-> TextDatum(0), max |-> NullDatum],
          [min |-> NullDatum, max |-> TextDatum(INT32_MAX)]}

ScanLists == UNION {[1..shardCount -> ClassifyBounds] : shardCount \in 0..MaxScanLength}

ScanOrders(shardCount) ==
    {order \in [1..shardCount -> 1..shardCount] :
        \A i, j \in 1..shardCount : i # j => order[i] # order[j]}

\* a uniform layout in some scan order, one bound of one row moved by delta
ChangedLayout(shardCount, order, changed, bound, delta) ==
    [i \in 1..shardCount |->
        LET bounds == UniformBounds(order[i] - 1, shardCount)
        IN  IF i # changed THEN bounds
            ELSE IF bound = "min" THEN [bounds EXCEPT !.min = @ + delta]
            ELSE [bounds EXCEPT !.max = @ + delta]]

\* the changed layouts whose bounds are integers of the token type
ChangedLayouts ==
    LET changedLayouts ==
            UNION {{ChangedLayout(shardCount, order, changed, bound, delta) :
                      order \in ScanOrders(shardCount), changed \in 1..shardCount,
                      bound \in {"min", "max"}, delta \in {-1, 1}} :
                   shardCount \in 1..MaxScanLength}
        inRange == {layout \in changedLayouts :
                       \A i \in 1..Len(layout) : /\ layout[i].min >= INT32_MIN
                                                  /\ layout[i].max <= INT32_MAX}
    IN  {[i \in 1..Len(layout) |-> BoundsDatums(layout[i])] : layout \in inRange}

ToShardTupleList(logicalrelid, boundsList) ==
    [i \in 1..Len(boundsList) |->
        ShardTuple(logicalrelid, i, boundsList[i].min, boundsList[i].max)]

ClassifyShardTupleLists(logicalrelid) ==
    {ToShardTupleList(logicalrelid, boundsList) : boundsList \in ScanLists \cup ChangedLayouts}

ClassifyPartitionTuples ==
    {PartitionTuple(DISTRIBUTE_BY_HASH, KeyInt4, TRUE, FALSE),
     PartitionTuple(DISTRIBUTE_BY_RANGE, KeyInt4, FALSE, TRUE),
     PartitionTuple(DISTRIBUTE_BY_APPEND, KeyInt4, FALSE, FALSE),
     PartitionTuple(UnsupportedMethod, KeyInt4, FALSE, FALSE)}

InitClassify ==
    /\ DistTableCacheHash = [r \in RelationIds |-> NoEntry]
    /\ hashInitialized = FALSE
    /\ extensionLoaded = FALSE
    /\ cachedOids = NoOids
    /\ extensionPresent = TRUE
    /\ creatingExtension = FALSE
    /\ relationsExist = TRUE
    /\ \E partitionTuple \in ClassifyPartitionTuples :
          pgDistPartition = [r \in RelationIds |->
                                IF r \in Tables THEN partitionTuple ELSE NullTuple]
    /\ \E shardTupleList \in ClassifyShardTupleLists(1) :
          pgDistShard = [r \in RelationIds |->
                            IF r \in Tables THEN shardTupleList ELSE <<>>]
    /\ pendingInval = {}
    /\ pc = "idle"
    /\ readPartitionTuple = NullTuple
    /\ readShardTupleList = <<>>
    /\ result = [op |-> "none", relationId |-> InvalidOid, outcome |-> "none", scans |-> 0]
    /\ WorkerNodeHash = NullHash
    /\ invalidationRegistered = FALSE
    /\ pgDistNode = <<>>
    /\ nodePc = "idle"
    /\ nodeResult = NoNodeResult
    /\ shardLoad = NoShardLoad
    /\ relcacheCallbacks = <<>>
    /\ uniformCheck = NoUniformCheck

NextClassify ==
    \/ \E relationId \in Tables : Call("DistributedTableCacheEntry", relationId)
    \/ LookupReadShards
    \/ LookupFinish
    \/ \E relationId \in Tables : InvalidateDistRelationCacheCallback(relationId)

SpecClassify == InitClassify /\ [][NextClassify]_vars

\* the worker node hash of a backend that never looks up a table, while the
\* extension is dropped and created again
DroppedNodeTupleLists == {l \in NodeTupleLists : Len(l) <= 1}

NextDroppedNodes ==
    \/ GetWorkerNodeHash
    \/ InitializeWorkerNodeCache
    \/ \E relationId \in {InvalidOid, PgDistNodeOid, PgDistPartitionOid} :
          InvalidateNodeRelationCacheCallback(relationId)
    \/ \E nodeTuples \in DroppedNodeTupleLists : NodeChange(nodeTuples)
    \/ DropExtension
    \/ BeginCreateExtension
    \/ CreateRelations
    \/ EndCreateExtension

SpecDroppedNodes == Init /\ [][NextDroppedNodes]_vars

\* one backend that uses the table cache and the worker node hash, whatever it
\* initializes first, while other sessions change the catalog and the nodes
BackendTables == {1, PgDistPartitionOid}

\* pg_dist_node is empty or holds one row
BackendNodeTupleLists == {<<>>, <<NodeTuple(8, <<"w", "c">>, 5432, "p", TRUE, 2)>>}

NextBackend ==
    \/ \E relationId \in BackendTables : Call("DistributedTableCacheEntry", relationId)
    \/ LookupReadShards
    \/ LookupFinish
    \/ GetWorkerNodeHash
    \/ InitializeWorkerNodeCache
    \/ \E relationId \in {1, InvalidOid, PgDistPartitionOid, PgDistNodeOid} :
          \/ InvalidateDistRelationCacheCallback(relationId)
          \/ InvalidateNodeRelationCacheCallback(relationId)
          \/ RelcacheInvalidation(relationId)
    \/ \E partitionTuple \in GatePartitionTuples : PartitionChange(1, partitionTuple)
    \/ \E nodeTuples \in BackendNodeTupleLists : NodeChange(nodeTuples)

SpecBackend == Init /\ [][NextBackend]_vars

\* HasUniformHashDistribution alone, iteration by iteration, over arrays of up
\* to MaxShardCount shards: the uniform layout, and the uniform layout with one
\* bound of one shard moved by one
MaxShardCount == 7

UniformArray(shardCount) ==
    [i \in 1..shardCount |->
        [minValue |-> UniformBounds(i - 1, shardCount).min,
         maxValue |-> UniformBounds(i - 1, shardCount).max]]

UniformCheckArrays(shardCount) ==
    {UniformArray(shardCount)}
    \cup {[UniformArray(shardCount) EXCEPT ![changed].minValue = @ + delta] :
             changed \in {i \in 1..shardCount :
                             UniformArray(shardCount)[i].minValue
                                \notin {INT32_MIN, INT32_MAX}},
             delta \in {-1, 1}}
    \cup {[UniformArray(shardCount) EXCEPT ![changed].maxValue = @ + delta] :
             changed \in {i \in 1..shardCount :
                             UniformArray(shardCount)[i].maxValue
                                \notin {INT32_MIN, INT32_MAX}},
             delta \in {-1, 1}}

InitUniformCheck ==
    /\ DistTableCacheHash = [r \in RelationIds |-> NoEntry]
    /\ hashInitialized = FALSE
    /\ extensionLoaded = FALSE
    /\ cachedOids = NoOids
    /\ extensionPresent = TRUE
    /\ creatingExtension = FALSE
    /\ relationsExist = TRUE
    /\ pgDistPartition = [r \in RelationIds |-> NullTuple]
    /\ pgDistShard = [r \in RelationIds |-> <<>>]
    /\ pendingInval = {}
    /\ pc = "idle"
    /\ readPartitionTuple = NullTuple
    /\ readShardTupleList = <<>>
    /\ result = [op |-> "none", relationId |-> InvalidOid, outcome |-> "none", scans |-> 0]
    /\ WorkerNodeHash = NullHash
    /\ invalidationRegistered = FALSE
    /\ pgDistNode = <<>>
    /\ nodePc = "idle"
    /\ nodeResult = NoNodeResult
    /\ shardLoad = NoShardLoad
    /\ relcacheCallbacks = <<>>
    /\ \E shardCount \in 0..MaxShardCount :
          \E shardIntervalArray \in UniformCheckArrays(shardCount) :
             uniformCheck = [shardIntervalArray |-> shardIntervalArray,
                             shardIntervalArrayLength |-> shardCount,
                             shardIndex |-> -1,
                             shardMinHashToken |-> 0, shardMaxHashToken |-> 0,
                             returned |-> "running"]

\* one iteration of the loop of HasUniformHashDistribution: the two tokens of
\* the range of shardIndex, then the comparison with the bounds of the shard
HasUniformHashDistributionIteration ==
    /\ uniformCheck.returned = "running"
    /\ uniformCheck.shardIntervalArrayLength # 0
    /\ uniformCheck.shardIndex + 1 < uniformCheck.shardIntervalArrayLength
    /\ LET shardIndex == uniformCheck.shardIndex + 1
           shardCount == uniformCheck.shardIntervalArrayLength
           shardInterval == uniformCheck.shardIntervalArray[shardIndex + 1]
           minToken == shardMinHashToken(shardIndex, shardCount)
           maxToken == shardMaxHashToken(shardIndex, shardCount)
       IN  uniformCheck' =
              [uniformCheck EXCEPT
                  !.shardIndex = shardIndex,
                  !.shardMinHashToken = minToken,
                  !.shardMaxHashToken = maxToken,
                  !.returned = IF \/ DatumGetInt32(shardInterval.minValue) # minToken
                                  \/ DatumGetInt32(shardInterval.maxValue) # maxToken
                               THEN "false" ELSE "running"]
    /\ UNCHANGED <<tableCache, cachedOids, environment, catalog, pendingInval, locals,
                   result, workerNodeCache, shardLoad, relcacheCallbacks>>

\* the two returns outside the loop: no shards, and every range compared
HasUniformHashDistributionReturn ==
    /\ uniformCheck.returned = "running"
    /\ \/ uniformCheck.shardIntervalArrayLength = 0
       \/ uniformCheck.shardIndex + 1 = uniformCheck.shardIntervalArrayLength
    /\ uniformCheck' =
          [uniformCheck EXCEPT
              !.returned = IF uniformCheck.shardIntervalArrayLength = 0
                           THEN "false" ELSE "true"]
    /\ UNCHANGED <<tableCache, cachedOids, environment, catalog, pendingInval, locals,
                   result, workerNodeCache, shardLoad, relcacheCallbacks>>

NextUniformCheck ==
    \/ HasUniformHashDistributionIteration
    \/ HasUniformHashDistributionReturn

SpecUniformCheck == InitUniformCheck /\ [][NextUniformCheck]_vars

(***************************************************************************)
(* Properties of the table cache.                                          *)
(***************************************************************************)
Cached(relationId) == DistTableCacheHash[relationId] # NoEntry

ValidEntry(relationId) ==
    Cached(relationId) /\ DistTableCacheHash[relationId].isValid

\* the errors a build raises after the catalog scans
BuildErrors == {"UnsupportedPartitionMethodError", "UnknownTypeError", "ValueParseError"}

\* the entry a rebuild from the present catalog rows of a relation stores
FreshEntry(relationId) ==
    BuildCacheEntry(relationId, pgDistPartition[relationId],
                    pgDistShard[relationId]).cacheEntry

\* C1: a notification for t delivered while a rebuild of t runs is not lost:
\* once every change of t's catalog rows has been notified, no valid entry of
\* t holds data older than those rows, so no lookup returns such data.
C1_NotificationNotLost ==
    \A t \in Tables :
        (t \notin pendingInval /\ ValidEntry(t)) =>
            DistTableCacheHash[t] = FreshEntry(t)

\* C2: after a lookup of t, a change of t's rows and a notification for t,
\* the entry is not valid, the next lookup of t scans the catalog again, and
\* the entry it stores is the one built from the rows as they are now.
C2_InvalidationRoundTrip ==
    [][\A t \in Tables :
          /\ InvalidateDistRelationCacheCallback(t) => ~ValidEntry(t)'
          /\ \A o \in Operations :
                (Call(o, t) /\ ~ValidEntry(t)) =>
                    /\ pc' = "partitionRead"
                    /\ result'.scans = 1
                    /\ readPartitionTuple' = pgDistPartition[t]
          /\ (LookupReadShards /\ result.relationId = t) =>
                (readShardTupleList' = pgDistShard[t] /\ result'.scans = 2)
          /\ ( /\ LookupFinish
               /\ result.relationId = t
               /\ readPartitionTuple = pgDistPartition[t]
               /\ readShardTupleList = pgDistShard[t]
               /\ result'.outcome \notin BuildErrors ) =>
                (ValidEntry(t)' /\ DistTableCacheHash'[t] = FreshEntry(t))]_vars

\* a lookup that scanned twice has stored a distributed entry with two shards
\* from rows that were changed and notified after the cache was set up
C2_Witness ==
    \E t \in Tables :
        /\ pc = "idle"
        /\ result.relationId = t /\ result.scans = 2
        /\ t \notin pendingInval
        /\ ValidEntry(t)
        /\ DistTableCacheHash[t].isDistributedTable
        /\ DistTableCacheHash[t].shardIntervalArrayLength = 2
        /\ DistTableCacheHash[t] = FreshEntry(t)

\* C3: a lookup of t that finds a valid entry returns from it with no catalog
\* scan and leaves the cache as it is; an entry stored by a lookup is valid and
\* stays as stored until a notification for t or the wildcard arrives.
C3_ValidEntryServedWithoutScan ==
    [][\A t \in Tables :
          /\ \A o \in Operations :
                (Call(o, t) /\ ValidEntry(t)) =>
                    /\ DistTableCacheHash' = DistTableCacheHash
                    /\ pc' = "idle"
                    /\ readPartitionTuple' = readPartitionTuple
                    /\ readShardTupleList' = readShardTupleList
                    /\ result' = Returned(o, t, CallOutcome(o, DistTableCacheHash[t]), 0)
          /\ ( /\ ValidEntry(t)
               /\ ~InvalidateDistRelationCacheCallback(t)
               /\ ~InvalidateDistRelationCacheCallback(InvalidOid) ) =>
                DistTableCacheHash'[t] = DistTableCacheHash[t]
          /\ ( /\ LookupFinish
               /\ result.relationId = t
               /\ result'.outcome \notin BuildErrors ) => ValidEntry(t)']_vars

\* a call was answered from a valid entry without a scan although the rows of
\* the table have changed since, the notification still pending
C3_Witness ==
    \E t \in Tables :
        /\ pc = "idle"
        /\ result.relationId = t /\ result.scans = 0 /\ result.op # "none"
        /\ ValidEntry(t)
        /\ t \in pendingInval
        /\ DistTableCacheHash[t] # FreshEntry(t)

\* C4: the wildcard notification leaves every cached entry not valid, whatever
\* the number of entries, removes and adds none, and the next lookup of each of
\* these tables rebuilds.
C4_WildcardInvalidatesAll ==
    [][/\ InvalidateDistRelationCacheCallback(InvalidOid) =>
             \A r \in RelationIds : (Cached(r)' <=> Cached(r)) /\ ~ValidEntry(r)'
       /\ \A t \in ManyTables :
             (Call("IsTableMaster", t) /\ Cached(t) /\ ~ValidEntry(t)) =>
                 (pc' = "partitionRead" /\ result'.scans = 1)]_vars

\* every one of the NumTables tables is cached and none of the entries is valid
C4_Witness ==
    /\ pc = "idle"
    /\ hashInitialized
    /\ \A t \in ManyTables : Cached(t) /\ ~ValidEntry(t)

\* C5: a notification for one table changes nothing of the cache but isValid
\* of that table's entry, which becomes false: it adds no entry, removes none,
\* rewrites no other field and touches no other entry.
C5_PointInvalidationFrame ==
    [][\A r \in ManyTables :
          InvalidateDistRelationCacheCallback(r) =>
              /\ \A k \in RelationIds \ {r} : DistTableCacheHash'[k] = DistTableCacheHash[k]
              /\ Cached(r)' <=> Cached(r)
              /\ Cached(r) =>
                    /\ ~DistTableCacheHash'[r].isValid
                    /\ \A f \in DOMAIN DistTableCacheHash[r] \ {"isValid"} :
                          DistTableCacheHash'[r][f] = DistTableCacheHash[r][f]]_vars

\* the entry of the hash table is invalid and still holds its two shards while
\* the entries of the other tables are valid
C5_Witness ==
    /\ pc = "idle"
    /\ Cached(1) /\ ~ValidEntry(1)
    /\ DistTableCacheHash[1].shardIntervalArrayLength = 2
    /\ DistTableCacheHash[1].partitionKeyString # NullString
    /\ \A t \in ManyTables \ {1} : ValidEntry(t)

\* the gate is inactive: not set, and the extension absent or its script running
GateInactive == ~extensionLoaded /\ ~(extensionPresent /\ ~creatingExtension)

\* C6: while the gate is inactive IsDistributedTable returns false for every
\* table without a catalog scan and without a change of the cache.
C6_InactiveGateAnswersFalse ==
    [][\A t \in GateTables :
          (Call("IsDistributedTable", t) /\ GateInactive) =>
              /\ result' = Returned("IsDistributedTable", t, "false", 0)
              /\ pc' = "idle"
              /\ DistTableCacheHash' = DistTableCacheHash
              /\ hashInitialized' = hashInitialized
              /\ ~extensionLoaded']_vars

\* IsDistributedTable answered false with the gate inactive although the cache
\* holds a valid entry that says the table is distributed
C6_Witness ==
    \E t \in GateTables :
        /\ GateInactive
        /\ result = Returned("IsDistributedTable", t, "false", 0)
        /\ ValidEntry(t)
        /\ DistTableCacheHash[t].isDistributedTable

\* C7: DistributedTableCacheEntry returns an entry only of a distributed
\* table; in every other case, the gate being inactive included, it fails
\* with NotDistributedError and returns nothing else.
C7_NotDistributedFails ==
    (result.op = "DistributedTableCacheEntry" /\ result.outcome # "running") =>
        /\ result.outcome # "NULL"
        /\ result.outcome = "entry" =>
              /\ Cached(result.relationId)
              /\ DistTableCacheHash[result.relationId].isDistributedTable

\* C8: a lookup of a table without partition tuple never fails, whatever shard
\* tuples name the table: it stores a valid entry that says not distributed.
C8_LookupWithoutPartitionTupleSucceeds ==
    [][\A t \in Tables :
          (LookupFinish /\ result.relationId = t /\ readPartitionTuple = NullTuple) =>
              /\ result'.outcome \notin BuildErrors
              /\ ValidEntry(t)'
              /\ ~DistTableCacheHash'[t].isDistributedTable]_vars

\* C9: a build that raises leaves the cache as it was with no valid entry of
\* the table, and the next lookup of the table scans the catalog again.
C9_FailedBuildLeavesNoValidEntry ==
    [][\A t \in Tables :
          /\ (LookupFinish /\ result.relationId = t /\ result'.outcome \in BuildErrors) =>
                (DistTableCacheHash' = DistTableCacheHash /\ ~ValidEntry(t)')
          /\ (result.relationId = t /\ result.outcome \in BuildErrors) => ~ValidEntry(t)
          /\ \A o \in Operations :
                (Call(o, t) /\ result.relationId = t /\ result.outcome \in BuildErrors) =>
                    (pc' = "partitionRead" /\ result'.scans = 1)]_vars

\* a build has raised over a slot that an earlier lookup had filled
C9_Witness ==
    \E t \in Tables :
        /\ pc = "idle"
        /\ result.relationId = t /\ result.outcome \in BuildErrors /\ result.scans = 2
        /\ Cached(t) /\ ~ValidEntry(t)

\* the entries a build can store for a relation
BuiltEntries(relationId) ==
    {BuildCacheEntry(relationId, p, l).cacheEntry :
        p \in PartitionTuples, l \in ShardTupleLists(relationId)} \ {NoEntry}

\* C10 as stated: after a build that raises, the slot of the table still holds
\* the invalid entry it held before the lookup, untouched: what some build
\* stored, with isValid cleared by the notification.
C10_PreviousEntryUntouched ==
    \A t \in Tables :
        (pc = "idle" /\ result.relationId = t /\ result.outcome \in BuildErrors /\ Cached(t)) =>
            \E e \in BuiltEntries(t) : DistTableCacheHash[t] = [e EXCEPT !.isValid = FALSE]

\* C10: a lookup that rebuilds keeps the slot of the previous invalid entry,
\* its key, isValid = false, isDistributedTable, isOwner, isCluster and
\* partitionMethod, but frees its content before the catalog is read: the
\* partition key string, and for an entry with shards the array, the length,
\* the comparison function, the two derived flags and, for a hash table, the
\* hash function. The scans and a build that raises leave this slot as it is.
C10_PreviousEntryKeptButFreed ==
    [][\A t \in Tables :
          /\ \A o \in Operations :
                (Call(o, t) /\ Cached(t) /\ ~ValidEntry(t)) =>
                    LET old == DistTableCacheHash[t]
                        new == DistTableCacheHash'[t]
                        hadShards == old.shardIntervalArrayLength > 0
                    IN  /\ new # NoEntry
                        /\ new.relationId = old.relationId
                        /\ ~new.isValid
                        /\ new.isDistributedTable = old.isDistributedTable
                        /\ new.isOwner = old.isOwner
                        /\ new.isCluster = old.isCluster
                        /\ new.partitionMethod = old.partitionMethod
                        /\ new.partitionKeyString = NullString
                        /\ new.shardIntervalArrayLength = 0
                        /\ new.sortedShardIntervalArray = NullArray
                        /\ new.shardIntervalCompareFunction = NullFmgrInfo
                        /\ ~new.hasUninitializedShardInterval
                        /\ ~new.hasUniformHashDistribution
                        /\ new.hashFunction =
                              IF hadShards /\ old.partitionMethod = DISTRIBUTE_BY_HASH
                              THEN NullFmgrInfo ELSE old.hashFunction
          /\ ( /\ result.relationId = t
               /\ \/ LookupReadShards
                  \/ LookupFinish /\ result'.outcome \in BuildErrors ) =>
                DistTableCacheHash'[t] = DistTableCacheHash[t]]_vars

\* a build has raised over the slot of a distributed table, which is left
\* without its partition key string
C10_Witness ==
    \E t \in Tables :
        /\ pc = "idle"
        /\ result.relationId = t /\ result.outcome \in BuildErrors
        /\ Cached(t)
        /\ DistTableCacheHash[t].isDistributedTable
        /\ DistTableCacheHash[t].partitionKeyString = NullString

\* C11: a lookup of a table whose partition tuple has a method outside
\* {APPEND, RANGE, HASH} fails with UnsupportedPartitionMethodError and stores
\* no valid entry, whatever the number of shard tuples of the table.
C11_UnsupportedMethodFails ==
    [][\A t \in Tables :
          ( /\ LookupFinish
            /\ result.relationId = t
            /\ readPartitionTuple # NullTuple
            /\ readPartitionTuple.partmethod \notin
                  {DISTRIBUTE_BY_APPEND, DISTRIBUTE_BY_RANGE, DISTRIBUTE_BY_HASH} ) =>
              /\ result'.outcome = "UnsupportedPartitionMethodError"
              /\ ~ValidEntry(t)']_vars

(***************************************************************************)
(* Properties of the activation gate.                                      *)
(***************************************************************************)
\* the calls that check the gate before they look up
GatedOperations == {"IsDistributedTable", "DistributedTableCacheEntry"}

\* what probing the catalog for the extension reports
ProbeReportsLoaded == extensionPresent /\ ~creatingExtension

\* C14: a notification that names the resolved pg_dist_partition sets the gate
\* inactive and every resolved identifier unresolved in one step, and the next
\* gated call probes again and resolves pg_dist_partition again; a notification
\* for another relation and the wildcard leave the gate and the identifiers.
C14_FullReset ==
    [][/\ \A r \in GateTables \cup {InvalidOid, PgDistPartitionOid} :
             InvalidateDistRelationCacheCallback(r) =>
                 IF r # InvalidOid /\ r = cachedOids.distPartitionRelationId
                 THEN /\ ~extensionLoaded'
                      /\ \A f \in DOMAIN cachedOids : cachedOids'[f] = InvalidOid
                 ELSE /\ extensionLoaded' = extensionLoaded
                      /\ cachedOids' = cachedOids
       /\ \A o \in GatedOperations, t \in GateTables :
             (Call(o, t) /\ ~extensionLoaded) =>
                 /\ extensionLoaded' = ProbeReportsLoaded
                 /\ extensionLoaded' =>
                       cachedOids'.distPartitionRelationId = PgDistPartitionOid]_vars

\* the gate is inactive and no identifier is resolved although the last gated
\* call went past the gate and scanned the catalog
C14_Witness ==
    /\ pc = "idle"
    /\ ~extensionLoaded
    /\ cachedOids = NoOids
    /\ result.op \in GatedOperations /\ result.scans = 2
    /\ \E t \in GateTables : Cached(t)

\* C15: once a check has set the gate active every later check returns active
\* without a probe, whatever the probe would report, and only a notification
\* that names the resolved pg_dist_partition sets the gate inactive again.
C15_PositiveDeterminationCached ==
    [][/\ extensionLoaded =>
             CitusHasBeenLoaded = [returns |-> TRUE, extensionLoaded |-> TRUE,
                                   cachedOids |-> cachedOids, raised |-> FALSE]
       /\ \A t \in GateTables :
             (Call("DistributedTableCacheEntry", t) /\ extensionLoaded) =>
                 (result'.outcome # "NULL" /\ extensionLoaded' /\ hashInitialized')
       /\ (extensionLoaded /\ ~extensionLoaded') =>
             /\ cachedOids.distPartitionRelationId # InvalidOid
             /\ InvalidateDistRelationCacheCallback(cachedOids.distPartitionRelationId)]_vars

\* a gated call went past the active gate to the catalog, which is gone: the
\* extension has been dropped and a probe would report it absent
C15_Witness ==
    /\ extensionLoaded
    /\ ~extensionPresent
    /\ result.op \in GatedOperations
    /\ result.outcome = "RelationLookupError"

\* C16: an inactive gate is never cached: every check made while the gate is
\* inactive probes, returns what the probe reports and leaves the gate inactive
\* unless the extension is present and its script has ended, in which case this
\* first check returns active.
C16_NegativeDeterminationNotCached ==
    [][/\ ~extensionLoaded =>
             /\ CitusHasBeenLoaded.returns = ProbeReportsLoaded
             /\ CitusHasBeenLoaded.extensionLoaded = ProbeReportsLoaded
       /\ \A o \in GatedOperations, t \in GateTables :
             (Call(o, t) /\ ~extensionLoaded) =>
                 /\ extensionLoaded' = ProbeReportsLoaded
                 /\ ProbeReportsLoaded => hashInitialized'
                 /\ ~ProbeReportsLoaded =>
                       result' = Returned(o, t, InactiveOutcome(o), 0)]_vars

\* a lookup runs behind the gate, active again after a full reset: the slot
\* of the table is from a lookup before the reset, the identifiers of
\* pg_dist_shard that lookup had resolved are unresolved
C16_Witness ==
    /\ extensionLoaded
    /\ pc = "partitionRead"
    /\ result.op \in GatedOperations
    /\ cachedOids.distShardRelationId = InvalidOid
    /\ \E t \in GateTables : Cached(t)

(***************************************************************************)
(* Properties of LoadShardInterval.                                        *)
(***************************************************************************)
\* the rows pg_dist_shard holds, of every relation
CatalogShardTuples ==
    UNION {{pgDistShard[r][i] : i \in 1..Len(pgDistShard[r])} : r \in RelationIds}

\* the bounds of a ShardInterval are those the texts of a row denote; a row
\* that lacks a text gives an interval without bounds
HasBoundsOfRow(shardInterval, heapTuple) ==
    IF heapTuple.shardminvalue.isNull \/ heapTuple.shardmaxvalue.isNull
    THEN ~shardInterval.minValueExists /\ ~shardInterval.maxValueExists
    ELSE /\ shardInterval.minValueExists /\ shardInterval.maxValueExists
         /\ heapTuple.shardminvalue.text = IntToText(shardInterval.minValue)
         /\ heapTuple.shardmaxvalue.text = IntToText(shardInterval.maxValue)

\* C17: every LoadShardInterval(s) scans pg_dist_shard: when no row has
\* shardId s it fails with ShardNotFoundError, otherwise it holds a row of the
\* catalog with that shardId, and the ShardInterval it returns has the shardId
\* asked for and the table and the bounds of that row, whatever the cached
\* shard array of the table holds
C17_LoadShardIntervalReadsCatalog ==
    [][/\ \A shardId \in LoadShardIds :
             LoadShardInterval(shardId) =>
                IF \A heapTuple \in CatalogShardTuples : heapTuple.shardid # shardId
                THEN result'.outcome = "ShardNotFoundError"
                ELSE /\ result'.outcome = "running"
                     /\ shardLoad'.heapTuple \in CatalogShardTuples
                     /\ shardLoad'.heapTuple.shardid = shardId
       /\ (LoadShardIntervalFinish /\ result'.outcome = "interval") =>
             /\ shardLoad'.shardInterval.shardId = shardLoad.shardId
             /\ shardLoad'.heapTuple = shardLoad.heapTuple
             /\ shardLoad'.shardInterval.relationId = shardLoad.heapTuple.logicalrelid
             /\ HasBoundsOfRow(shardLoad'.shardInterval, shardLoad.heapTuple)
       /\ (result'.op = "LoadShardInterval" /\ result'.outcome = "interval") =>
             shardLoad'.shardInterval.shardId = shardLoad'.shardId]_vars

\* a shard returned with the bounds of its row while the valid cached entry of
\* its table holds the same shard with another upper bound
C17_Witness ==
    /\ pc = "idle"
    /\ result.op = "LoadShardInterval"
    /\ result.outcome = "interval"
    /\ shardLoad.shardInterval.maxValueExists
    /\ ValidEntry(result.relationId)
    /\ \E i \in 1..DistTableCacheHash[result.relationId].shardIntervalArrayLength :
          LET cached == DistTableCacheHash[result.relationId].sortedShardIntervalArray[i]
          IN  /\ cached.shardId = shardLoad.shardId
              /\ cached.maxValue # shardLoad.shardInterval.maxValue

(***************************************************************************)
(* Properties of the Shard Set Classifier.                                 *)
(***************************************************************************)
\* the valid entries of distributed tables
DistributedEntries ==
    {DistTableCacheHash[r] : r \in {q \in RelationIds :
                                       ValidEntry(q) /\ DistTableCacheHash[q].isDistributedTable}}

HasBothBounds(shardInterval) ==
    shardInterval.minValueExists /\ shardInterval.maxValueExists

\* the rows of a table hold a uniform layout with one bound moved
IsChangedLayout(shardTupleList) ==
    [i \in 1..Len(shardTupleList) |->
        [min |-> shardTupleList[i].shardminvalue, max |-> shardTupleList[i].shardmaxvalue]]
            \in ChangedLayouts

\* C18: in the valid entry of a HASH table with N >= 1 shards,
\* hasUniformHashDistribution is true exactly when for every i in 0..N-1 the
\* i-th shard of the sorted array has minValue INT32_MIN + i * floor(2^32 / N)
\* and maxValue minValue + floor(2^32 / N) - 1, INT32_MAX for the last; and it
\* is false when the rows are a uniform layout with one bound moved
C18_UniformIffEveryRangeMatches ==
    \A cacheEntry \in DistributedEntries :
        LET shardCount == cacheEntry.shardIntervalArrayLength
            width == HASH_TOKEN_COUNT \div shardCount
            shard(i) == cacheEntry.sortedShardIntervalArray[i + 1]
        IN  (cacheEntry.partitionMethod = DISTRIBUTE_BY_HASH /\ shardCount >= 1) =>
               /\ cacheEntry.hasUniformHashDistribution <=>
                     \A i \in 0..(shardCount - 1) :
                        /\ HasBothBounds(shard(i))
                        /\ shard(i).minValue = INT32_MIN + i * width
                        /\ shard(i).maxValue = IF i = shardCount - 1 THEN INT32_MAX
                                                ELSE shard(i).minValue + width - 1
               /\ IsChangedLayout(pgDistShard[cacheEntry.relationId]) =>
                     ~cacheEntry.hasUniformHashDistribution

\* a HASH table whose MaxScanLength ranges were scanned out of order and found uniform
C18_Witness ==
    \E cacheEntry \in DistributedEntries :
        /\ cacheEntry.partitionMethod = DISTRIBUTE_BY_HASH
        /\ cacheEntry.shardIntervalArrayLength = MaxScanLength
        /\ cacheEntry.hasUniformHashDistribution
        /\ cacheEntry.sortedShardIntervalArray[1].shardId # 1

C20_BoundedFirstAscending ==
    \A cacheEntry \in DistributedEntries :
        LET shardCount == cacheEntry.shardIntervalArrayLength
            shardTupleList == pgDistShard[cacheEntry.relationId]
            shard(i) == cacheEntry.sortedShardIntervalArray[i]
        IN  shardCount > 0 =>
               /\ shardCount = Len(shardTupleList)
               /\ {shard(i).shardId : i \in 1..shardCount}
                     = {shardTupleList[i].shardid : i \in 1..shardCount}
               /\ cacheEntry.shardIntervalCompareFunction # NullFmgrInfo
               /\ \A i, j \in 1..shardCount :
                     i < j =>
                        /\ HasBothBounds(shard(j)) => HasBothBounds(shard(i))
                        /\ (HasBothBounds(shard(i)) /\ HasBothBounds(shard(j))) =>
                              CompareValues(shard(i).minValue, shard(j).minValue) <= 0

\* an entry rebuilt from a scan in descending order of the lower bounds, with
\* a row that lacks a bound in between
C20_Witness ==
    \E cacheEntry \in DistributedEntries :
        /\ cacheEntry.shardIntervalArrayLength = MaxScanLength
        /\ result.scans = 2
        /\ pc = "idle"
        /\ LET shardTupleList == pgDistShard[cacheEntry.relationId]
           IN  /\ ~shardTupleList[1].shardminvalue.isNull
               /\ ~shardTupleList[1].shardmaxvalue.isNull
               /\ shardTupleList[2].shardminvalue.isNull
               /\ ~shardTupleList[MaxScanLength].shardminvalue.isNull
               /\ ~shardTupleList[MaxScanLength].shardmaxvalue.isNull
               /\ cacheEntry.sortedShardIntervalArray[1].shardId = MaxScanLength
               /\ cacheEntry.sortedShardIntervalArray[2].shardId = 1

\* C21: the valid entry of a table without shard rows, whatever its partition
\* method, has a shard array of length 0, hasUninitializedShardInterval false
\* and hasUniformHashDistribution false
C21_NoShardsNoDerivedFlags ==
    \A relationId \in Tables :
        (ValidEntry(relationId) /\ pgDistShard[relationId] = <<>>) =>
            /\ DistTableCacheHash[relationId].shardIntervalArrayLength = 0
            /\ ~DistTableCacheHash[relationId].hasUninitializedShardInterval
            /\ ~DistTableCacheHash[relationId].hasUniformHashDistribution

\* the valid entry of a HASH table without shard rows
C21_Witness ==
    \E cacheEntry \in DistributedEntries :
        /\ pgDistShard[cacheEntry.relationId] = <<>>
        /\ cacheEntry.partitionMethod = DISTRIBUTE_BY_HASH
        /\ cacheEntry.hashFunction # NullFmgrInfo
        /\ pc = "idle"

(***************************************************************************)
(* Properties of the rebuild of an entry.                                  *)
(***************************************************************************)
\* the rows of a scan hold a row that lacks a bound text
SomeRowLacksBound(shardTupleList) ==
    \E i \in 1..Len(shardTupleList) :
        shardTupleList[i].shardminvalue.isNull \/ shardTupleList[i].shardmaxvalue.isNull

\* C22: the entry a rebuild stores over a slot that held an entry is made of the
\* rows read in that rebuild alone: without partition tuple it is the zeroed
\* entry marked valid; with one, its flags, method and key are those of the
\* tuple, its array holds the shards of the shard tuples read, with their
\* bounds, the comparison function is there exactly when there are shards, the
\* hash function exactly when the method read is HASH, and the derived flags
\* follow from the array
C22_RebuiltEntryFromRowsRead ==
    [][\A t \in Tables :
          (LookupFinish /\ result.relationId = t /\ Cached(t)
              /\ result'.outcome \notin BuildErrors) =>
             LET new == DistTableCacheHash'[t]
                 shardCount == Len(readShardTupleList)
             IN  IF readPartitionTuple = NullTuple
                 THEN new = [ZeroedEntry(t) EXCEPT !.isValid = TRUE]
                 ELSE /\ new.relationId = t
                      /\ new.isValid /\ new.isDistributedTable
                      /\ new.isOwner = readPartitionTuple.isowner
                      /\ new.isCluster = readPartitionTuple.iscluster
                      /\ new.partitionMethod = readPartitionTuple.partmethod
                      /\ new.partitionKeyString = readPartitionTuple.partkey
                      /\ new.shardIntervalArrayLength = shardCount
                      /\ Len(new.sortedShardIntervalArray) = shardCount
                      /\ \A i \in 1..shardCount :
                            \E j \in 1..shardCount :
                               /\ new.sortedShardIntervalArray[j].shardId
                                     = readShardTupleList[i].shardid
                               /\ new.sortedShardIntervalArray[j].relationId = t
                               /\ HasBoundsOfRow(new.sortedShardIntervalArray[j],
                                                 readShardTupleList[i])
                      /\ (new.shardIntervalCompareFunction # NullFmgrInfo) <=> shardCount > 0
                      /\ (new.hashFunction # NullFmgrInfo)
                            <=> readPartitionTuple.partmethod = DISTRIBUTE_BY_HASH
                      /\ new.hasUninitializedShardInterval
                            <=> SomeRowLacksBound(readShardTupleList)
                      /\ new.hasUniformHashDistribution
                            <=> /\ readPartitionTuple.partmethod = DISTRIBUTE_BY_HASH
                                /\ shardCount > 0
                                /\ \A i \in 1..shardCount :
                                      LET shard == new.sortedShardIntervalArray[i]
                                          bounds == UniformBounds(i - 1, shardCount)
                                      IN  /\ HasBothBounds(shard)
                                          /\ shard.minValue = bounds.min
                                          /\ shard.maxValue = bounds.max]_vars

\* a rebuild that has read that the table is not distributed any more, over
\* the slot of a HASH table that still points to its hash function
C22_Witness ==
    \E t \in Tables :
        /\ pc = "shardsRead"
        /\ result.relationId = t
        /\ readPartitionTuple = NullTuple
        /\ readShardTupleList = <<>>
        /\ Cached(t)
        /\ DistTableCacheHash[t].isDistributedTable
        /\ DistTableCacheHash[t].partitionMethod = DISTRIBUTE_BY_HASH
        /\ DistTableCacheHash[t].hashFunction # NullFmgrInfo

\* C23: when a lookup releases the invalid entry of a slot before it rebuilds,
\* the partition key string, the shard array, the comparison function and the
\* hash function of the old entry are all released, for every method and
\* every number of shards
C23_ReleaseDropsEveryResource ==
    [][\A t \in Tables : \A o \in Operations :
          (Call(o, t) /\ Cached(t) /\ ~ValidEntry(t)) =>
             /\ DistTableCacheHash'[t].partitionKeyString = NullString
             /\ DistTableCacheHash'[t].sortedShardIntervalArray = NullArray
             /\ DistTableCacheHash'[t].shardIntervalCompareFunction = NullFmgrInfo
             /\ DistTableCacheHash'[t].hashFunction = NullFmgrInfo]_vars

\* C24: every valid entry that is not of a distributed table has no shard
\* array, length 0, no comparison function, no hash function, no partition key
\* string, isOwner and isCluster false and both derived flags false
C24_NotDistributedEntryIsEmpty ==
    \A relationId \in RelationIds :
        (ValidEntry(relationId) /\ ~DistTableCacheHash[relationId].isDistributedTable) =>
            LET cacheEntry == DistTableCacheHash[relationId]
            IN  /\ cacheEntry.sortedShardIntervalArray = NullArray
                /\ cacheEntry.shardIntervalArrayLength = 0
                /\ cacheEntry.shardIntervalCompareFunction = NullFmgrInfo
                /\ cacheEntry.hashFunction = NullFmgrInfo
                /\ cacheEntry.partitionKeyString = NullString
                /\ ~cacheEntry.isOwner
                /\ ~cacheEntry.isCluster
                /\ ~cacheEntry.hasUninitializedShardInterval
                /\ ~cacheEntry.hasUniformHashDistribution

\* the valid entry of a table that is not distributed, while its rows have
\* since been changed to those of a HASH table with shards
C24_Witness ==
    \E t \in Tables :
        /\ ValidEntry(t)
        /\ ~DistTableCacheHash[t].isDistributedTable
        /\ pc = "idle"
        /\ result.relationId = t
        /\ result.scans = 0
        /\ pgDistPartition[t] # NullTuple
        /\ Len(pgDistShard[t]) > 0

\* C25: a valid entry has a hash function exactly when it is the entry of a
\* distributed table whose method is HASH, with or without shards, and
\* hasUniformHashDistribution is false in every entry whose method is not HASH
C25_HashFunctionIffHash ==
    \A relationId \in RelationIds :
        LET cacheEntry == DistTableCacheHash[relationId]
        IN  /\ ValidEntry(relationId) =>
                  ((cacheEntry.hashFunction # NullFmgrInfo)
                      <=> (cacheEntry.isDistributedTable
                              /\ cacheEntry.partitionMethod = DISTRIBUTE_BY_HASH))
            /\ (Cached(relationId) /\ cacheEntry.partitionMethod # DISTRIBUTE_BY_HASH) =>
                  ~cacheEntry.hasUniformHashDistribution

\* the valid entries seen so far: a HASH table without shards that has its
\* hash function
C25_Witness ==
    \E t \in Tables :
        /\ ValidEntry(t)
        /\ DistTableCacheHash[t].partitionMethod = DISTRIBUTE_BY_HASH
        /\ DistTableCacheHash[t].shardIntervalArrayLength = 0
        /\ DistTableCacheHash[t].hashFunction # NullFmgrInfo
        /\ result.scans = 2

\* C26: every ShardInterval of a valid entry, built from the shard row of its
\* shardId, has minValueExists equal to maxValueExists: both true exactly when
\* both bound texts of the row are present, and when one is absent both are
\* false and both stored values are zero, the text that is present not parsed
C26_BoundsExistTogether ==
    \A cacheEntry \in DistributedEntries :
        \A i \in 1..cacheEntry.shardIntervalArrayLength :
            LET shardInterval == cacheEntry.sortedShardIntervalArray[i]
                shardTupleList == pgDistShard[cacheEntry.relationId]
            IN  /\ shardInterval.minValueExists = shardInterval.maxValueExists
                /\ \E j \in 1..Len(shardTupleList) :
                      LET heapTuple == shardTupleList[j]
                          bothPresent == /\ ~heapTuple.shardminvalue.isNull
                                         /\ ~heapTuple.shardmaxvalue.isNull
                      IN  /\ heapTuple.shardid = shardInterval.shardId
                          /\ shardInterval.minValueExists <=> bothPresent
                          /\ ~bothPresent => /\ shardInterval.minValue = 0
                                             /\ shardInterval.maxValue = 0

\* an entry with a shard whose row has the upper bound INT32_MAX and no
\* lower bound
C26_Witness ==
    \E cacheEntry \in DistributedEntries :
        \E i \in 1..cacheEntry.shardIntervalArrayLength :
            \E j \in 1..Len(pgDistShard[cacheEntry.relationId]) :
                LET heapTuple == pgDistShard[cacheEntry.relationId][j]
                    shardInterval == cacheEntry.sortedShardIntervalArray[i]
                IN  /\ heapTuple.shardid = shardInterval.shardId
                    /\ heapTuple.shardminvalue.isNull
                    /\ heapTuple.shardmaxvalue = TextDatum(INT32_MAX)
                    /\ shardInterval.maxValue = 0
                    /\ ~shardInterval.maxValueExists

(***************************************************************************)
(* Properties of the Worker Node Registry.                                 *)
(***************************************************************************)
\* the last row of a scan that carries a nodeid
LastRowOf(nodeTuples, nodeId) ==
    nodeTuples[CHOOSE i \in 1..Len(nodeTuples) :
                  /\ nodeTuples[i].nodeid = nodeId
                  /\ \A j \in (i + 1)..Len(nodeTuples) : nodeTuples[j].nodeid # nodeId]

\* the registry of a scan: one node for each nodeid of the rows, read from the
\* last row that carries it
RegistryOf(nodeTuples) ==
    [null |-> FALSE,
     entries |->
        [nodeId \in NodeIds |->
            IF \E i \in 1..Len(nodeTuples) : nodeTuples[i].nodeid = nodeId
            THEN TupleToWorkerNode(LastRowOf(nodeTuples, nodeId))
            ELSE NoNode]]

\* C12: the registry is built by one scan of pg_dist_node in the first
\* GetWorkerNodeHash that finds no hash; later calls return that hash without
\* a scan; only a notification for pg_dist_node destroys it, all of it, and
\* the build that follows holds the nodes of the rows present at its scan.
C12_RegistryLifecycle ==
    [][/\ (GetWorkerNodeHash /\ WorkerNodeHash # NullHash) =>
             /\ nodeResult' = [outcome |-> "hash", scans |-> 0, warnings |-> 0,
                               hash |-> WorkerNodeHash]
             /\ WorkerNodeHash' = WorkerNodeHash
             /\ nodePc' = "idle"
       /\ (GetWorkerNodeHash /\ WorkerNodeHash = NullHash) =>
             (nodePc' = "hashCreated" /\ WorkerNodeHash' = EmptyWorkerNodeHash)
       /\ (InitializeWorkerNodeCache /\ WorkerNodeHash # NullHash) =>
             /\ nodeResult'.outcome = "hash" /\ nodeResult'.scans = 1
             /\ nodeResult'.hash = WorkerNodeHash'
             /\ WorkerNodeHash' = RegistryOf(pgDistNode)
       /\ InvalidateNodeRelationCacheCallback(PgDistNodeOid) =>
             WorkerNodeHash' = NullHash
       /\ ( /\ WorkerNodeHash # NullHash
            /\ nodePc = "idle"
            /\ ~InvalidateNodeRelationCacheCallback(PgDistNodeOid) ) =>
             WorkerNodeHash' = WorkerNodeHash]_vars

\* a build that scanned has returned the registry of the two rows pg_dist_node
\* holds now, after the notification of their change was delivered
C12_Witness ==
    /\ nodePc = "idle"
    /\ nodeResult.outcome = "hash" /\ nodeResult.scans = 1
    /\ Len(pgDistNode) = 2
    /\ PgDistNodeOid \notin pendingInval
    /\ WorkerNodeHash = RegistryOf(pgDistNode)
    /\ nodeResult.hash = WorkerNodeHash

\* C13: when the scan yields several rows with one nodeId the registry holds
\* one entry for it whose name, port, active, role and groupId are those of the
\* last such row, one warning is reported for each colliding row, and every
\* other nodeId of the rows is present.
C13_CollidingRowsLastWins ==
    [][(InitializeWorkerNodeCache /\ WorkerNodeHash # NullHash) =>
          /\ nodeResult'.outcome = "hash"
          /\ nodeResult'.warnings =
                Len(pgDistNode) - Cardinality({pgDistNode[i].nodeid : i \in 1..Len(pgDistNode)})
          /\ \A nodeId \in NodeIds :
                IF \E i \in 1..Len(pgDistNode) : pgDistNode[i].nodeid = nodeId
                THEN LET last == LastRowOf(pgDistNode, nodeId)
                     IN  WorkerNodeHash'.entries[nodeId] =
                            [nodeId |-> nodeId,
                             workerName |-> last.nodename,
                             workerPort |-> last.nodeport,
                             workerActive |-> last.nodeactive,
                             workerRole |-> last.noderole,
                             groupId |-> last.groupid]
                ELSE WorkerNodeHash'.entries[nodeId] = NoNode]_vars

\* C27: a notification for pg_dist_node delivered while a build runs, after
\* the hash was created and once the callback is registered, does not take the
\* hash from the build: every build completes and GetWorkerNodeHash returns
\* the hash the build filled
C27_BuildSurvivesNotification ==
    [][InitializeWorkerNodeCache =>
          /\ nodeResult'.outcome = "hash"
          /\ nodeResult'.hash # NullHash
          /\ WorkerNodeHash' = nodeResult'.hash]_vars

\* the result of a GetWorkerNodeHash whose build raised before the scan
FailedBuild ==
    [outcome |-> "RelationLookupError", scans |-> 0, warnings |-> 0, hash |-> NullHash]

\* C28: a build that fails after the hash was created leaves no hash behind:
\* the GetWorkerNodeHash that follows a failed one does not return the hash of
\* the failed build, it builds again from pg_dist_node or fails again
C28_FailedBuildLeavesNoRegistry ==
    [][/\ (GetWorkerNodeHash /\ nodeResult' = FailedBuild) => WorkerNodeHash' = NullHash
       /\ (GetWorkerNodeHash /\ nodeResult = FailedBuild) =>
             \/ nodeResult' = FailedBuild
             \/ nodeResult'.outcome = "running" /\ nodePc' = "hashCreated"]_vars


(***************************************************************************)
(* Properties of a backend that registered both callbacks.                 *)
(***************************************************************************)
\* a notification for pg_dist_partition whose identifier the backend resolved
FullReset(relationId) ==
    /\ IsPartitionRelation(relationId, cachedOids.distPartitionRelationId)
    /\ \/ InvalidateDistRelationCacheCallback(relationId)
       \/ RelcacheInvalidation(relationId)

\* C29: a full reset changes no slot of the table cache but the one keyed by
\* pg_dist_partition and leaves the worker node hash as it was; a lookup that
\* finds the gate inactive and the slot of a table valid activates the gate and
\* answers from that slot, left unchanged, without a catalog scan
C29_FullResetKeepsOtherEntries ==
    [][/\ \A relationId \in RelationIds :
             FullReset(relationId) =>
                /\ ~extensionLoaded'
                /\ \A r \in RelationIds \ {relationId} :
                      DistTableCacheHash'[r] = DistTableCacheHash[r]
                /\ WorkerNodeHash' = WorkerNodeHash
                /\ hashInitialized' = hashInitialized
       /\ \A r \in BackendTables :
             (/\ Call("DistributedTableCacheEntry", r)
              /\ ~extensionLoaded
              /\ ValidEntry(r)) =>
                /\ extensionLoaded'
                /\ result' = Returned("DistributedTableCacheEntry", r,
                                      CallOutcome("DistributedTableCacheEntry",
                                                  DistTableCacheHash[r]), 0)
                /\ DistTableCacheHash'[r] = DistTableCacheHash[r]
                /\ pc' = "idle"]_vars

\* after a full reset in a backend that holds a worker node hash: the gate is
\* inactive, the slot of pg_dist_partition is invalid, the slot of table 1 is
\* valid and the worker node hash is there
C29_Witness ==
    /\ hashInitialized /\ invalidationRegistered
    /\ ~extensionLoaded
    /\ Cached(PgDistPartitionOid) /\ ~ValidEntry(PgDistPartitionOid)
    /\ ValidEntry(1) /\ DistTableCacheHash[1].isDistributedTable
    /\ WorkerNodeHash # NullHash /\ WorkerNodeHash # EmptyWorkerNodeHash
    /\ pc = "idle" /\ nodePc = "idle"


\* a notification, whatever callbacks the backend registered
Notification(relationId) ==
    \/ InvalidateDistRelationCacheCallback(relationId)
    \/ InvalidateNodeRelationCacheCallback(relationId)
    \/ RelcacheInvalidation(relationId)

\* C30: the worker node hash is destroyed by a notification for pg_dist_node
\* and by no other step; the wildcard notification and a notification for
\* another relation leave it as it was, and GetWorkerNodeHash returns it
\* without a scan; the wildcard notification leaves the gate and every
\* resolved identifier as they were
C30_OnlyNodeNotificationDestroysHash ==
    [][/\ \A relationId \in RelationIds \cup {InvalidOid} :
             Notification(relationId) =>
                /\ relationId # PgDistNodeOid => WorkerNodeHash' = WorkerNodeHash
                /\ relationId = InvalidOid =>
                      /\ extensionLoaded' = extensionLoaded
                      /\ \A oid \in DOMAIN cachedOids :
                            cachedOids[oid] # InvalidOid =>
                               cachedOids'[oid] = cachedOids[oid]
       /\ (WorkerNodeHash # NullHash /\ WorkerNodeHash' = NullHash) =>
             Notification(PgDistNodeOid)
       /\ (GetWorkerNodeHash /\ WorkerNodeHash # NullHash) =>
             /\ nodeResult' = [outcome |-> "hash", scans |-> 0, warnings |-> 0,
                               hash |-> WorkerNodeHash]
             /\ WorkerNodeHash' = WorkerNodeHash]_vars

\* after the wildcard notification in a backend that uses both caches: every
\* slot is invalid, the gate is active, the identifiers are resolved, the worker
\* node hash is there and the last GetWorkerNodeHash returned it without a scan
C30_Witness ==
    /\ hashInitialized /\ invalidationRegistered
    /\ Cached(1) /\ ~ValidEntry(1)
    /\ Cached(PgDistPartitionOid) /\ ~ValidEntry(PgDistPartitionOid)
    /\ extensionLoaded
    /\ cachedOids.distPartitionRelationId = PgDistPartitionOid
    /\ cachedOids.distNodeRelationId = PgDistNodeOid
    /\ WorkerNodeHash # NullHash /\ WorkerNodeHash # EmptyWorkerNodeHash
    /\ nodeResult = [outcome |-> "hash", scans |-> 0, warnings |-> 0,
                     hash |-> WorkerNodeHash]
    /\ pendingInval = {}
    /\ pc = "idle" /\ nodePc = "idle"


(***************************************************************************)
(* Properties of the gate and the identifier of pg_dist_partition.         *)
(***************************************************************************)
\* C31: while the gate is active the identifier of pg_dist_partition is
\* resolved, also after a gate check whose lookup of pg_dist_partition raised
C31_ActiveGateHasPartitionOid ==
    extensionLoaded => cachedOids.distPartitionRelationId # InvalidOid


(***************************************************************************)
(* Properties that relate the two derived flags.                           *)
(***************************************************************************)
\* C32: in every valid entry hasUniformHashDistribution implies that
\* hasUninitializedShardInterval is false; the entry of a HASH table with a
\* shard that lacks a bound, stored with zero bounds, is not uniform
C32_UniformHasNoUninitializedShard ==
    \A r \in RelationIds :
        ValidEntry(r) =>
            LET cacheEntry == DistTableCacheHash[r]
            IN  /\ cacheEntry.hasUniformHashDistribution =>
                      ~cacheEntry.hasUninitializedShardInterval
                /\ (/\ cacheEntry.partitionMethod = DISTRIBUTE_BY_HASH
                    /\ \E i \in 1..cacheEntry.shardIntervalArrayLength :
                          ~HasBothBounds(cacheEntry.sortedShardIntervalArray[i])) =>
                      ~cacheEntry.hasUniformHashDistribution

\* a HASH table of two shards: the first holds the first uniform range, the
\* second lacks its bounds, and its stored lower bound, zero, is the start of
\* the second uniform range
C32_Witness ==
    \E cacheEntry \in DistributedEntries :
        LET shard(i) == cacheEntry.sortedShardIntervalArray[i]
        IN  /\ cacheEntry.partitionMethod = DISTRIBUTE_BY_HASH
            /\ cacheEntry.shardIntervalArrayLength = 2
            /\ HasBothBounds(shard(1))
            /\ shard(1).minValue = shardMinHashToken(0, 2)
            /\ shard(1).maxValue = shardMaxHashToken(0, 2)
            /\ ~shard(2).minValueExists /\ ~shard(2).maxValueExists
            /\ shard(2).minValue = shardMinHashToken(1, 2)
            /\ shard(2).maxValue # shardMaxHashToken(1, 2)
            /\ cacheEntry.hasUninitializedShardInterval
            /\ ~cacheEntry.hasUniformHashDistribution


(***************************************************************************)
(* Properties of the token ranges of HasUniformHashDistribution.           *)
(***************************************************************************)
\* C33: for N >= 1 shards and every index i < N the two tokens of range i,
\* computed in 64 bits and truncated to the token type, are the integers
\* INT32_MIN + i * floor(HASH_TOKEN_COUNT / N) and, but for the last range,
\* that plus floor(HASH_TOKEN_COUNT / N) - 1, and lie between INT32_MIN and
\* INT32_MAX; range 0 starts at INT32_MIN, the last range ends at INT32_MAX,
\* and range i + 1 starts one above the end of range i
C33_TokenRangesPartition ==
    /\ [](uniformCheck.shardIndex >= 0 =>
            LET i == uniformCheck.shardIndex
                N == uniformCheck.shardIntervalArrayLength
                minToken == uniformCheck.shardMinHashToken
                maxToken == uniformCheck.shardMaxHashToken
            IN  /\ minToken = INT32_MIN + i * (HASH_TOKEN_COUNT \div N)
                /\ i < N - 1 => maxToken = minToken + (HASH_TOKEN_COUNT \div N) - 1
                /\ INT32_MIN <= minToken /\ minToken <= maxToken /\ maxToken <= INT32_MAX
                /\ i = 0 => minToken = INT32_MIN
                /\ i = N - 1 => maxToken = INT32_MAX)
    /\ [][(HasUniformHashDistributionIteration /\ uniformCheck.shardIndex >= 0) =>
             uniformCheck'.shardMinHashToken = uniformCheck.shardMaxHashToken + 1]_vars
    /\ [][HasUniformHashDistributionReturn =>
             (uniformCheck'.returned = "true") =
                HasUniformHashDistribution(uniformCheck.shardIntervalArray,
                                           uniformCheck.shardIntervalArrayLength)]_vars

\* the loop reached the last range of MaxShardCount shards, whose width does
\* not divide the number of tokens, and every range before it matched
C33_Witness ==
    /\ uniformCheck.shardIntervalArrayLength = MaxShardCount
    /\ HASH_TOKEN_COUNT % MaxShardCount # 0
    /\ uniformCheck.shardIndex = MaxShardCount - 1
    /\ uniformCheck.shardMaxHashToken = INT32_MAX
    /\ uniformCheck.shardMinHashToken + (HASH_TOKEN_COUNT \div MaxShardCount) - 1
          < INT32_MAX
    /\ uniformCheck.returned = "true"

============================================================================
